---- MODULE Spec2Model ----
(***************************************************************************)
(* Model of m5_readsf~ / m5_writesf~ (streaming soundfile playback and     *)
(* capture): the realtime block callback and message handlers on one side, *)
(* the file I/O child thread on the other, sharing the FIFO and the        *)
(* control fields of t_readsf under x_mutex.                               *)
(*                                                                         *)
(* One action is one mutex-held section (or one unlocked file operation)   *)
(* of the source.  Sizes are scaled down; the relations between them are   *)
(* the source's (fifosize is a multiple of bytesperframe * MAXVECSIZE,     *)
(* MINBUFSIZE is 4 * READSIZE).                                            *)
(***************************************************************************)
EXTENDS Integers, Sequences, FiniteSets, TLC

\* ----- sizes (scaled) -----
MAXVECSIZE == 4
READSIZE == 4
WRITESIZE == 4
MINBUFSIZE == 4 * READSIZE
\* buffer size given to the constructor (clamped up to MINBUFSIZE)
Bufsize == MINBUFSIZE
\* 16-bit mono file: bytes per sample and per frame
BytesPerSample == 2
\* 24-bit mono file: bytes per sample and per frame
BytesPerSample24 == 3
\* header bytes before the sample data of a file
HeaderSize == 2

\* ----- bounds of the exploration -----
MaxTime == 16
MaxFileFrames == 3

\* ----- special values -----
LOOP_SELF == 0
START_NOW == -1
END_AT_LOOP == -1
END_NOW == 0
DBL_MAX == 1000000
START_AT_THRESHOLD == DBL_MAX
END_NEVER == DBL_MAX
SFMAXBYTES == 2000000
FRAMES_NOT_UPDATED == 3000000
SOUNDFILE_M5_ERREMPTY == -1004
\* errno of a failed open / read / write
EIO == 5
NOT_FOUND == -1
MARK_TIME_ANCHOR == -1
\* value of an output sample that the callback did not write
UNWRITTEN == -7
\* number of values of a size_t (scaled)
SIZE_RANGE == 1073741824

\* ----- argument sets of the messages -----
FileFramesSet == {0, MaxFileFrames}
OnsetArgs == {1}
StartArgs == {5}
EndArgs == {6}
ThresholdArgs == {7}
LoopLengthArgs == {MaxFileFrames + 2}
LoopStartArgs == {1}
BuildSet == {"wrap", "sat"}

VARIABLES kind, build, x, buf, wk, mutex, rt, host, hist, blk

vars == <<kind, build, x, buf, wk, mutex, rt, host, hist, blk>>

Min(a, b) == IF a < b THEN a ELSE b
Max(a, b) == IF a > b THEN a ELSE b

\* (size_t)d for a time field held as a double.  The conversion of DBL_MAX
\* is out of range: it yields 0 on build "wrap" and a huge value on "sat".
SizeT(d, b) == IF d = DBL_MAX THEN (IF b = "wrap" THEN 0 ELSE DBL_MAX) ELSE d

\* (ssize_t)d for a time field held as a double
SSizeT(d, b) == IF d = DBL_MAX THEN (IF b = "wrap" THEN 0 - DBL_MAX ELSE DBL_MAX) ELSE d

\* the builds a block callback can turn out to run on: the build is fixed
\* for the whole run and shows the first time DBL_MAX is converted
Builds(converts) == IF converts /\ build = "unknown" THEN BuildSet ELSE {build}

\* the byte stored at absolute offset p of a file with n sample frames
FileByte(n, p) ==
    IF p >= HeaderSize /\ p < HeaderSize + n * BytesPerSample
    THEN p - HeaderSize + 1 ELSE 0

\* 16-bit little-endian decode of one frame at buf + at (unscaled)
Decode16(b, at) == b[at] + 256 * b[at + 1]

\* reading the buffer at index i; past the allocation the value is arbitrary
BufAt(b, i, junk) == IF i < Bufsize THEN b[i] ELSE junk

\* ----- the object: t_readsf after m5_readsf_new / m5_writesf_new -----
NoFile == [frames |-> 0, ok |-> FALSE, bps |-> BytesPerSample]
\* a file that opens, with or without sample frames, and one that does not open
Files ==
    {f \in [frames : FileFramesSet, ok : BOOLEAN, bps : {BytesPerSample}] :
       f.ok \/ f.frames = 0}
\* a 24-bit file that opens
Files24 == {[frames |-> MaxFileFrames, ok |-> TRUE, bps |-> BytesPerSample24]}

m5_readsf_new ==
    [ x_state |-> "IDLE", x_requestcode |-> "NOTHING", x_filename |-> NoFile,
      x_fileerror |-> 0, sf_fd |-> FALSE, sf_bytelimit |-> SFMAXBYTES,
      sf_bytesperframe |-> 2, sf_headersize |-> 0, x_onsetframes |-> 0,
      x_bufsize |-> Bufsize, x_fifosize |-> 0, x_fifohead |-> 0,
      x_fifotail |-> 0, x_eof |-> 0, x_sigcountdown |-> 0, x_sigperiod |-> 0,
      x_vecsize |-> MAXVECSIZE, x_frameswritten |-> 0,
      x_m5SoundFileFramesAvailableFromOnset |-> 0,
      x_m5FramesWrittenReport |-> 0, x_m5WriteStartTimeReport |-> 0,
      x_m5HeadTimeRequest |-> 0, x_m5TailTime |-> 0,
      x_m5TimeAnchor |-> FALSE, x_m5LocalTimeAnchor |-> 0,
      x_m5LoopLength |-> LOOP_SELF, x_m5LoopLengthRequest |-> 0,
      x_m5LoopStart |-> 0, x_m5PlayStartTime |-> 0,
      x_m5PlayEndTime |-> END_AT_LOOP, x_m5PerformedFifoSize |-> 0,
      x_m5PlayStartThreshold |-> 0 ]

m5_writesf_new ==
    [ m5_readsf_new EXCEPT
      !.x_m5FramesWrittenReport = FRAMES_NOT_UPDATED,
      !.x_m5PlayStartTime = START_NOW,
      !.x_m5PlayEndTime = END_NEVER,
      !.x_m5PlayStartThreshold = 1 ]

\* locals of the child thread (m5_readsf_child_main / m5_writesf_child_main)
ChildLocals ==
    [ pc |-> "entry", sf_fd |-> FALSE, file |-> NoFile, sf_bytesperframe |-> 0,
      m5_original_bytelimit |-> 0, m5_seek_max |-> 0, m5_initial_offset |-> 0,
      nextSeek |-> 0, wantbytes |-> 0, actual_bytes_to_want |-> 0,
      wantzeroes |-> 0, bytesread |-> 0, fifohead |-> 0, last_fifohead |-> 0,
      last_headTimeRequest |-> 0, onsetframes |-> 0, filename |-> NoFile,
      frameswritten |-> 0, quit |-> FALSE, fifotail |-> 0, writebytes |-> 0,
      byteswritten |-> 0 ]

\* the child's locals once it has left the file: none of them is read again
\* before its next assignment, so they are shown with their initial value
Settled(w) == [ChildLocals EXCEPT !.pc = w.pc, !.sf_fd = w.sf_fd, !.file = w.file]

\* the locals of one pass of the read loop, after the pass
PassDone(w) ==
    [w EXCEPT !.wantbytes = 0, !.actual_bytes_to_want = 0, !.wantzeroes = 0,
              !.bytesread = 0, !.fifohead = 0, !.last_fifohead = 0,
              !.last_headTimeRequest = 0, !.fifotail = 0, !.writebytes = 0,
              !.byteswritten = 0]

\* what the properties remember: a file was opened, emissions on the info
\* outlet since the last open (and the last value), whether the info clock
\* was set since the last open, whether audio of the open file was output,
\* the bytes written to the file on disk, how the recording was ended, and
\* whether the block callback has blocked on a condition variable
HistInit ==
    [ opened |-> FALSE, infoOut |-> 0, infoVal |-> 0, clkCur |-> FALSE, audio |-> FALSE,
      disk |-> <<>>, fin |-> "none", blocked |-> FALSE ]

\* the block the callback has just produced (kind "none": no block just now)
NoBlock ==
    [ out |-> [i \in 1..MAXVECSIZE |-> UNWRITTEN], kind |-> "none", bs |-> 0,
      start |-> 0, end |-> 0 ]

Init ==
    /\ kind \in {"readsf", "writesf"}
    /\ build = "unknown"
    /\ x = IF kind = "readsf" THEN m5_readsf_new ELSE m5_writesf_new
    /\ buf = [i \in 0..(Bufsize - 1) |-> 0]
    /\ wk = ChildLocals
    /\ mutex = "free"
    /\ rt = [pc |-> "idle", zerosize |-> 0, bs |-> 0, vecsize |-> 0,
             tailpush |-> 0, is_finished |-> FALSE, file |-> NoFile]
    /\ host = [now |-> 0, sent |-> FALSE, x_clock |-> FALSE, x_m5FramesOutClock |-> FALSE,
               x_m5StartTimeOutClock |-> FALSE, anchor |-> MARK_TIME_ANCHOR,
               msg |-> "none"]
    /\ hist = HistInit
    /\ blk = NoBlock

\* ----- condition variables -----
\* sfread_cond_signal(&x->x_requestcondition): wakes the child if it waits
SignalRequest(w) ==
    IF w.pc = "wait_top" THEN [w EXCEPT !.pc = "woken_top"]
    ELSE IF w.pc = "wait_room" THEN [w EXCEPT !.pc = "woken_room"]
    ELSE w

\* sfread_cond_signal(&x->x_answercondition): wakes the parent if it waits
SignalAnswer(r) ==
    IF r.pc = "free_wait" THEN [r EXCEPT !.pc = "free_woken"]
    ELSE IF r.pc = "perf_wait" THEN [r EXCEPT !.pc = "perf_woken"]
    ELSE IF r.pc = "open_wait" THEN [r EXCEPT !.pc = "open_woken"]
    ELSE r

\* the child runs its next section: it takes the mutex at one of the places
\* in `unlocked', or already holds it at one of the places in `locked'
ChildAt(unlocked, locked) ==
    \/ mutex = "free" /\ wk.pc \in unlocked
    \/ mutex = "wk" /\ wk.pc \in locked

\* ===================== playback: the child thread =====================

\* top of while (1): dispatch on the request code
RChildTop ==
    /\ kind = "readsf"
    /\ ChildAt({"entry", "woken_top"}, {"top"})
    /\ UNCHANGED <<kind, build, buf, host, hist>>
    /\ CASE x.x_requestcode = "NOTHING" ->
              \* signal answer, wait on request
              /\ wk' = [wk EXCEPT !.pc = "wait_top"]
              /\ rt' = SignalAnswer(rt)
              /\ mutex' = "free"
              /\ x' = x
         [] x.x_requestcode = "OPEN" ->
              /\ x' = [x EXCEPT !.x_requestcode = "BUSY", !.x_fileerror = 0]
              /\ wk' = [wk EXCEPT !.nextSeek = 0,
                                  !.onsetframes = x.x_onsetframes,
                                  !.filename = x.x_filename,
                                  !.pc = IF wk.sf_fd THEN "open_closing"
                                         ELSE "open_opening"]
              /\ mutex' = "free"
              /\ rt' = rt
         [] x.x_requestcode = "CLOSE" ->
              IF wk.sf_fd
              THEN /\ x' = [x EXCEPT !.sf_fd = FALSE]
                   /\ wk' = [wk EXCEPT !.pc = "close_closing"]
                   /\ mutex' = "free"
                   /\ rt' = rt
              ELSE /\ x' = [x EXCEPT !.x_requestcode = "NOTHING"]
                   /\ wk' = [wk EXCEPT !.pc = "top"]
                   /\ mutex' = "wk"
                   /\ rt' = SignalAnswer(rt)
         [] x.x_requestcode = "QUIT" ->
              IF wk.sf_fd
              THEN /\ x' = [x EXCEPT !.sf_fd = FALSE]
                   /\ wk' = [wk EXCEPT !.pc = "quit_closing"]
                   /\ mutex' = "free"
                   /\ rt' = rt
              ELSE /\ x' = [x EXCEPT !.x_requestcode = "NOTHING"]
                   /\ wk' = [wk EXCEPT !.pc = "exited"]
                   /\ mutex' = "free"
                   /\ rt' = SignalAnswer(rt)
         [] OTHER ->
              \* REQUEST_BUSY at the top: the loop spins with the mutex held
              /\ wk' = [wk EXCEPT !.pc = "top"]
              /\ mutex' = "wk"
              /\ UNCHANGED <<x, rt>>

\* OPEN: the previous file has been closed with the mutex released
RChildOpenClosedOld ==
    /\ kind = "readsf"
    /\ ChildAt({"open_closing"}, {})
    /\ UNCHANGED <<kind, build, buf, host, hist, rt>>
    /\ x' = [x EXCEPT !.sf_fd = FALSE]
    /\ IF x.x_requestcode # "BUSY"
       THEN /\ wk' = Settled([wk EXCEPT !.sf_fd = FALSE, !.file = NoFile, !.pc = "lost"])
            /\ mutex' = "wk"
       ELSE /\ wk' = [wk EXCEPT !.sf_fd = FALSE, !.file = NoFile, !.pc = "open_opening"]
            /\ mutex' = "free"

\* sf_bytelimit after m5_open_soundfile_via_fd: data bytes minus skipped frames
OpenedByteLimit(file, onsetframes) ==
    Max(0, file.frames * file.bps - onsetframes * file.bps)

\* OPEN: m5_open_soundfile_via_namelist has returned
RChildOpened ==
    /\ kind = "readsf"
    /\ ChildAt({"open_opening"}, {})
    /\ UNCHANGED <<kind, build, buf, host, hist, rt>>
    /\ mutex' = "wk"
    /\ LET ok == wk.filename.ok
           bytelimit == IF ok THEN OpenedByteLimit(wk.filename, wk.onsetframes)
                        ELSE x.sf_bytelimit
           headersize == IF ok THEN HeaderSize ELSE x.sf_headersize
           bpf == IF ok THEN wk.filename.bps ELSE x.sf_bytesperframe
           initial_offset == headersize + wk.onsetframes * bpf
           w1 == [wk EXCEPT !.sf_fd = ok, !.file = IF ok THEN wk.filename ELSE NoFile,
                            !.filename = NoFile, !.onsetframes = 0,
                            !.sf_bytesperframe = bpf,
                            !.m5_original_bytelimit = bytelimit,
                            !.m5_initial_offset = initial_offset,
                            !.m5_seek_max = bytelimit + initial_offset]
       IN IF ~ok
          THEN /\ x' = [x EXCEPT !.x_fileerror = EIO, !.x_eof = 1]
               /\ wk' = Settled([w1 EXCEPT !.pc = "lost"])
          ELSE IF x.x_requestcode # "BUSY"
          THEN /\ x' = [x EXCEPT !.sf_fd = TRUE, !.sf_bytelimit = bytelimit,
                                 !.sf_bytesperframe = bpf,
                                 !.sf_headersize = headersize]
               /\ wk' = Settled([w1 EXCEPT !.pc = "lost"])
          ELSE /\ x' = [x EXCEPT !.sf_fd = TRUE, !.sf_bytelimit = bytelimit,
                                 !.sf_bytesperframe = bpf,
                                 !.sf_headersize = headersize,
                                 !.x_fifohead = 0,
                                 !.x_fifosize = x.x_bufsize -
                                     (x.x_bufsize % (bpf * MAXVECSIZE)),
                                 !.x_sigcountdown =
                                     (x.x_bufsize - (x.x_bufsize % (bpf * MAXVECSIZE)))
                                       \div (16 * bpf * x.x_vecsize),
                                 !.x_sigperiod =
                                     (x.x_bufsize - (x.x_bufsize % (bpf * MAXVECSIZE)))
                                       \div (16 * bpf * x.x_vecsize)]
               /\ wk' = [w1 EXCEPT !.pc = "loop"]

\* loop length in bytes as the refill loop computes it
LoopLengthBytes(w, xx) ==
    IF xx.x_m5LoopLength = LOOP_SELF THEN w.m5_original_bytelimit
    ELSE w.sf_bytesperframe * xx.x_m5LoopLength

\* a seek position that takes the truncating remainder of the byte time
FreshSeekTruncated(w, xx) ==
    LET loop_length_bytes == LoopLengthBytes(w, xx)
        pst == IF xx.x_m5PlayStartTime < 0 THEN 0 ELSE xx.x_m5PlayStartTime
        byte_time == (xx.x_m5HeadTimeRequest - pst) * w.sf_bytesperframe
    IN IF byte_time >= 0
       THEN (byte_time % loop_length_bytes) + w.m5_initial_offset
              + w.sf_bytesperframe * xx.x_m5LoopStart
       ELSE ((0 - byte_time) % loop_length_bytes) + w.m5_initial_offset
              + w.sf_bytesperframe * xx.x_m5LoopStart

\* seek position for a fresh FIFO (head == 0 and tail == 0)
FreshSeek(w, xx) ==
    LET loop_length_bytes == LoopLengthBytes(w, xx)
        loop_start_bytes == w.sf_bytesperframe * xx.x_m5LoopStart
        pst == IF xx.x_m5PlayStartTime < 0 THEN 0 ELSE xx.x_m5PlayStartTime
        byte_time == (xx.x_m5HeadTimeRequest - pst) * w.sf_bytesperframe
    IN IF byte_time >= 0
       THEN (byte_time % loop_length_bytes) + w.m5_initial_offset + loop_start_bytes
       ELSE loop_length_bytes - ((0 - byte_time) % loop_length_bytes)
              + w.m5_initial_offset + loop_start_bytes

\* a refill test that never makes the child wait
FifoHasRoomAlways(xx) == TRUE

\* whether the child may refill now: up to the end of the FIFO when head is at
\* or after tail (but never to the end when tail is 0), else READSIZE bytes
\* that end before tail
FifoHasRoom(xx) ==
    IF xx.x_fifohead >= xx.x_fifotail
    THEN (xx.x_fifotail # 0 \/ xx.x_fifosize - xx.x_fifohead > READSIZE)
    ELSE xx.x_fifotail - xx.x_fifohead - 1 >= READSIZE

\* one pass of while (x->x_requestcode == REQUEST_BUSY) up to the point where
\* the mutex is released for the read, or the child waits for room
RChildLoop ==
    /\ kind = "readsf"
    /\ ChildAt({"woken_room"}, {"loop"})
    /\ UNCHANGED <<kind, build, buf, host, hist>>
    /\ IF x.x_requestcode # "BUSY"
       THEN /\ wk' = Settled([wk EXCEPT !.pc = "lost"])
            /\ mutex' = "wk"
            /\ UNCHANGED <<x, rt>>
       ELSE
       LET fifosize == x.x_fifosize
           loop_length_bytes == LoopLengthBytes(wk, x)
           loop_start_bytes == wk.sf_bytesperframe * x.x_m5LoopStart
           loop_end == loop_length_bytes + wk.m5_initial_offset + loop_start_bytes
           seek0 == IF x.x_fifohead = 0 /\ x.x_fifotail = 0
                    THEN FreshSeek(wk, x) ELSE wk.nextSeek
           nextSeek == IF seek0 = loop_end
                       THEN wk.m5_initial_offset + loop_start_bytes ELSE seek0
           loop_byte_limit == loop_end - nextSeek
           room == FifoHasRoom(x)
           want0 == IF x.x_fifohead >= x.x_fifotail
                    THEN Min(fifosize - x.x_fifohead, READSIZE)
                    ELSE READSIZE
           \* size_t comparison: a negative loop_byte_limit is a huge value
           wantbytes == IF loop_byte_limit >= 0 /\ want0 > loop_byte_limit
                        THEN loop_byte_limit ELSE want0
       IN IF loop_length_bytes = 0
          THEN /\ x' = [x EXCEPT !.x_eof = 1, !.x_fileerror = SOUNDFILE_M5_ERREMPTY]
               /\ wk' = Settled([wk EXCEPT !.pc = "lost"])
               /\ mutex' = "wk"
               /\ rt' = rt
          ELSE IF ~room
          THEN /\ wk' = [wk EXCEPT !.nextSeek = nextSeek, !.pc = "wait_room"]
               /\ rt' = SignalAnswer(rt)
               /\ mutex' = "free"
               /\ x' = x
          ELSE /\ wk' = [wk EXCEPT !.nextSeek = nextSeek,
                                   !.wantbytes = wantbytes,
                                   !.fifohead = x.x_fifohead,
                                   !.last_fifohead = x.x_fifohead,
                                   !.last_headTimeRequest = x.x_m5HeadTimeRequest,
                                   !.pc = "io"]
               /\ mutex' = "free"
               /\ UNCHANGED <<x, rt>>

\* the read request as if the loop never went past the end of the file
ActualBytesToWantUnclamped(w) == w.wantbytes

\* actual_bytes_to_want: the part of wantbytes that lies before m5_seek_max
ActualBytesToWant(w) ==
    LET avail == w.m5_seek_max - w.nextSeek
    IN IF avail > w.wantbytes THEN w.wantbytes
       ELSE IF avail < 0 THEN 0 ELSE avail

\* the offset of the end of the file's data
FileEnd(file) == HeaderSize + file.frames * file.bps

\* the byte stored at absolute offset p of a file, for every sample size
FileByteAt(file, p) ==
    IF p >= HeaderSize /\ p < FileEnd(file) THEN p - HeaderSize + 1 ELSE 0

\* what read(fd, buf, n) returns at offset pos: it stops at the end of the file
ReadCount(file, pos, n) == Max(0, Min(n, FileEnd(file) - pos))

\* a read that advances the object's head itself, with the mutex released
RChildIoShared ==
    /\ kind = "readsf"
    /\ wk.pc = "io"
    /\ UNCHANGED <<kind, build, buf, mutex, rt, host, hist>>
    /\ x' = [x EXCEPT !.x_fifohead = (x.x_fifohead + wk.wantbytes) % x.x_fifosize]
    /\ wk' = [wk EXCEPT !.pc = "io_done"]

\* lseek + read + zero fill, with the mutex released
RChildIo ==
    /\ kind = "readsf"
    /\ wk.pc = "io"
    /\ UNCHANGED <<kind, build, x, mutex, rt, host, hist>>
    /\ LET actual == ActualBytesToWant(wk)
           wantzeroes == wk.wantbytes - actual
           got == ReadCount(wk.file, wk.nextSeek, actual)
       IN \E ioerr \in IF actual > 0 THEN {FALSE, TRUE} ELSE {FALSE} :
            IF ioerr
            THEN /\ buf' = [i \in 0..(Bufsize - 1) |->
                              IF i >= wk.fifohead + actual
                                 /\ i < wk.fifohead + actual + wantzeroes
                              THEN 0 ELSE buf[i]]
                 /\ wk' = [wk EXCEPT !.actual_bytes_to_want = actual,
                                     !.wantzeroes = wantzeroes,
                                     !.bytesread = -1, !.pc = "io_done"]
            ELSE /\ buf' = [i \in 0..(Bufsize - 1) |->
                              IF i >= wk.fifohead /\ i < wk.fifohead + got
                              THEN FileByteAt(wk.file, wk.nextSeek + (i - wk.fifohead))
                              ELSE IF i >= wk.fifohead + actual
                                      /\ i < wk.fifohead + actual + wantzeroes
                              THEN 0 ELSE buf[i]]
                 /\ wk' = [wk EXCEPT !.actual_bytes_to_want = actual,
                                     !.wantzeroes = wantzeroes,
                                     !.bytesread = got, !.pc = "io_done"]

\* after the read, with the mutex held again
RChildIoDone ==
    /\ kind = "readsf"
    /\ ChildAt({"io_done"}, {})
    /\ UNCHANGED <<kind, build, buf, host, hist>>
    /\ mutex' = "wk"
    /\ IF x.x_requestcode # "BUSY"
       THEN /\ wk' = Settled([wk EXCEPT !.pc = "lost"])
            /\ UNCHANGED <<x, rt>>
       ELSE IF wk.bytesread < 0
       THEN /\ x' = [x EXCEPT !.x_fileerror = EIO]
            /\ wk' = Settled([wk EXCEPT !.pc = "lost"])
            /\ rt' = rt
       ELSE IF wk.bytesread = 0 /\ wk.actual_bytes_to_want > 0
       THEN /\ wk' = Settled([wk EXCEPT !.pc = "lost"])
            /\ UNCHANGED <<x, rt>>
       ELSE
       LET same == x.x_fifohead = wk.last_fifohead
                   /\ x.x_m5HeadTimeRequest = wk.last_headTimeRequest
           head1 == x.x_fifohead + wk.bytesread + wk.wantzeroes
           seek1 == wk.nextSeek + wk.bytesread + wk.wantzeroes
           loop_end == wk.m5_initial_offset + LoopLengthBytes(wk, x)
                         + wk.sf_bytesperframe * x.x_m5LoopStart
       IN /\ x' = IF same
                  THEN [x EXCEPT !.x_fifohead =
                                   IF head1 = x.x_fifosize THEN 0 ELSE head1]
                  ELSE x
          /\ wk' = IF same
                   THEN PassDone([wk EXCEPT !.nextSeek =
                                     IF seek1 = loop_end
                                     THEN wk.m5_initial_offset
                                            + wk.sf_bytesperframe * x.x_m5LoopStart
                                     ELSE seek1,
                                   !.pc = "loop"])
                   ELSE PassDone([wk EXCEPT !.pc = "loop"])
          /\ rt' = SignalAnswer(rt)

\* lost: fell out of the read loop
RChildLost ==
    /\ kind = "readsf"
    /\ ChildAt({}, {"lost"})
    /\ UNCHANGED <<kind, build, buf, host, hist>>
    /\ LET rc == IF x.x_requestcode = "BUSY" THEN "NOTHING" ELSE x.x_requestcode
       IN IF wk.sf_fd
          THEN /\ x' = [x EXCEPT !.x_requestcode = rc,
                                 !.x_eof = IF rc # "OPEN" THEN 1 ELSE x.x_eof,
                                 !.sf_fd = FALSE]
               /\ wk' = [wk EXCEPT !.pc = "lost_closing"]
               /\ mutex' = "free"
               /\ rt' = rt
          ELSE /\ x' = [x EXCEPT !.x_requestcode = rc]
               /\ wk' = [wk EXCEPT !.pc = "top"]
               /\ mutex' = "wk"
               /\ rt' = SignalAnswer(rt)

\* lost: the file has been closed with the mutex released
RChildLostClosed ==
    /\ kind = "readsf"
    /\ ChildAt({"lost_closing"}, {})
    /\ UNCHANGED <<kind, build, buf, host, hist, x>>
    /\ wk' = [wk EXCEPT !.sf_fd = FALSE, !.file = NoFile, !.pc = "top"]
    /\ mutex' = "wk"
    /\ rt' = SignalAnswer(rt)

\* REQUEST_CLOSE: the file has been closed with the mutex released
RChildCloseClosed ==
    /\ kind = "readsf"
    /\ ChildAt({"close_closing"}, {})
    /\ UNCHANGED <<kind, build, buf, host, hist>>
    /\ x' = IF x.x_requestcode = "CLOSE"
            THEN [x EXCEPT !.x_requestcode = "NOTHING"] ELSE x
    /\ wk' = [wk EXCEPT !.sf_fd = FALSE, !.file = NoFile, !.pc = "top"]
    /\ mutex' = "wk"
    /\ rt' = SignalAnswer(rt)

\* REQUEST_QUIT: the file has been closed with the mutex released
RChildQuitClosed ==
    /\ kind = "readsf"
    /\ ChildAt({"quit_closing"}, {})
    /\ UNCHANGED <<kind, build, buf, host, hist>>
    /\ x' = [x EXCEPT !.x_requestcode = "NOTHING"]
    /\ wk' = [wk EXCEPT !.sf_fd = FALSE, !.file = NoFile, !.pc = "exited"]
    /\ mutex' = "free"
    /\ rt' = SignalAnswer(rt)

RChild ==
    \/ RChildTop \/ RChildOpenClosedOld \/ RChildOpened \/ RChildLoop
    \/ RChildIo \/ RChildIoDone \/ RChildLost \/ RChildLostClosed
    \/ RChildCloseClosed \/ RChildQuitClosed

\* ===================== playback: the parent (realtime) side =====================

\* the parent is between callbacks and can take the mutex
ParentIdle == rt.pc = "idle" /\ mutex = "free"

\* a start handler that would also go on while the stream is playing
ReadStartAcceptsStream(xx) == xx.x_state \in {"STARTUP", "STARTUP_2", "STREAM"}

\* the states in which each handler goes on past its first test
ReadStartAccepts(xx) == xx.x_state \in {"STARTUP", "STARTUP_2"}

ReadStopAccepts(xx) == xx.x_state \in {"STREAM", "STARTUP", "STARTUP_2"}

WriteStartAccepts(xx) == xx.x_state = "STARTUP"

WriteStopAccepts(xx) == xx.x_state \in {"STREAM", "STREAM_JUST_STARTING", "STARTUP"}

\* m5_readsf_open with a file name (and optional onset)
m5_readsf_open(file, onset) ==
    /\ kind = "readsf"
    /\ ParentIdle
    /\ x' = [x EXCEPT !.sf_fd = FALSE,
                      !.sf_headersize = -1,
                      !.sf_bytesperframe = 2,
                      !.sf_bytelimit = 0,
                      !.x_requestcode = "OPEN",
                      !.x_filename = file,
                      !.x_fifotail = 0,
                      !.x_fifohead = 0,
                      !.x_onsetframes = onset,
                      !.x_eof = 0,
                      !.x_m5SoundFileFramesAvailableFromOnset = 0,
                      !.x_fileerror = 0,
                      !.x_m5HeadTimeRequest = 0,
                      !.x_m5TailTime = 0,
                      !.x_m5PlayStartTime = START_NOW,
                      !.x_m5PlayEndTime = END_AT_LOOP,
                      !.x_state = "STARTUP"]
    /\ wk' = SignalRequest(wk)
    /\ hist' = [hist EXCEPT !.opened = TRUE, !.infoOut = 0, !.infoVal = 0,
                            !.clkCur = FALSE, !.audio = FALSE]
    /\ UNCHANGED <<kind, build, buf, mutex, rt>>

\* m5_readsf_start: t = START_NOW for no argument, else the frame count
m5_readsf_start(t) ==
    /\ kind = "readsf"
    /\ ParentIdle
    /\ ReadStartAccepts(x)
    /\ x' = [x EXCEPT !.x_m5LoopLengthRequest = 1,
                      !.x_state = "STREAM",
                      !.x_m5PlayStartTime = t,
                      !.x_m5LocalTimeAnchor = host.now]
    /\ wk' = SignalRequest(wk)
    /\ UNCHANGED <<kind, build, buf, mutex, rt, hist>>

\* m5_readsf_stop without arguments
m5_readsf_stop ==
    /\ kind = "readsf"
    /\ ParentIdle
    /\ ReadStopAccepts(x)
    /\ x' = [x EXCEPT !.x_state = "IDLE", !.x_requestcode = "CLOSE"]
    /\ wk' = SignalRequest(wk)
    /\ UNCHANGED <<kind, build, buf, mutex, rt, hist>>

\* m5_readsf_stop now | end | never | <FTC>: e is the new end time
m5_readsf_stop_at(e) ==
    /\ kind = "readsf"
    /\ ParentIdle
    /\ ReadStopAccepts(x)
    /\ x' = [x EXCEPT !.x_m5PlayEndTime = e]
    /\ wk' = SignalRequest(wk)
    /\ UNCHANGED <<kind, build, buf, mutex, rt, hist>>

\* m5_readsf_loop_start <FTC>
m5_readsf_loop_start(ll) ==
    /\ kind = "readsf"
    /\ ParentIdle
    /\ x' = [x EXCEPT !.x_m5LoopLengthRequest = 1, !.x_m5LoopStart = ll]
    /\ wk' = SignalRequest(wk)
    /\ UNCHANGED <<kind, build, buf, mutex, rt, hist>>

\* m5_readsf_loop_length self | <FTC>
m5_readsf_loop_length(ll) ==
    /\ kind = "readsf"
    /\ ParentIdle
    /\ x' = [x EXCEPT !.x_m5LoopLengthRequest = 1, !.x_m5LoopLength = ll]
    /\ wk' = SignalRequest(wk)
    /\ UNCHANGED <<kind, build, buf, mutex, rt, hist>>

\* m5_readsf_time: bind to the shared anchor (TRUE) or to "self" (FALSE)
m5_readsf_time(shared) ==
    /\ kind = "readsf"
    /\ rt.pc = "idle"
    /\ x' = [x EXCEPT !.x_m5TimeAnchor = shared, !.x_m5LoopLengthRequest = 1]
    /\ UNCHANGED <<kind, build, buf, mutex, rt, hist, wk>>

\* an anchor whose T=0 is the time of its creation
AnchorAtCreation == IF host.anchor = MARK_TIME_ANCHOR THEN 0 ELSE host.anchor

\* the anchor's start time after m5_time_anchor_get_starttime
AnchorStart == IF host.anchor = MARK_TIME_ANCHOR THEN host.now ELSE host.anchor

\* frame count since the time anchor at the start of this block
BlockStartTime ==
    IF x.x_m5TimeAnchor THEN host.now - AnchorStart
    ELSE Max(0, host.now - x.x_m5LocalTimeAnchor)

\* the clocks' callbacks: m5_readsf_tick and m5_readsf_frame_out_tick
m5_readsf_tick ==
    /\ kind = "readsf"
    /\ rt.pc = "idle"
    /\ host.x_clock
    /\ host' = [host EXCEPT !.x_clock = FALSE]
    /\ UNCHANGED <<kind, build, x, buf, wk, mutex, rt, hist>>

m5_readsf_frame_out_tick ==
    /\ kind = "readsf"
    /\ rt.pc = "idle"
    /\ host.x_m5FramesOutClock
    /\ host' = [host EXCEPT !.x_m5FramesOutClock = FALSE]
    /\ hist' = [hist EXCEPT !.infoOut = Min(hist.infoOut + 1, 2),
                            !.infoVal = x.x_m5SoundFileFramesAvailableFromOnset]
    /\ UNCHANGED <<kind, build, x, buf, wk, mutex, rt>>

\* m5_soundfile_xferin_sample: n frames decoded from buf + at
XferIn(at, n, junk) ==
    [i \in 1..n |->
       LET sp2 == at + (i - 1) * x.sf_bytesperframe
       IN BufAt(buf, sp2, junk) + 256 * BufAt(buf, sp2 + 1, junk)
            + (IF x.sf_bytesperframe = BytesPerSample24
               THEN 65536 * BufAt(buf, sp2 + 2, junk) ELSE 0)]

\* values a read past the end of the allocation can return
JunkFor(at, n) ==
    IF n > 0 /\ at + n * x.sf_bytesperframe > Bufsize THEN {0, 99} ELSE {0}

Zeros(n) == [i \in 1..n |-> 0]

\* clock_delay(x->x_m5FramesOutClock, 0)
SchedFramesOut(h) == [h EXCEPT !.x_m5FramesOutClock = TRUE]

\* the file's frame count as the callback reads it from x_sf
FramesFromSf ==
    IF x.x_m5SoundFileFramesAvailableFromOnset # 0
    THEN x.x_m5SoundFileFramesAvailableFromOnset
    ELSE IF x.sf_bytesperframe > 0 /\ x.sf_bytelimit # SFMAXBYTES
    THEN x.sf_bytelimit \div x.sf_bytesperframe
    ELSE 0

\* the FIFO reset of the block callback
FifoReset(xx) == [xx EXCEPT !.x_fifohead = 0, !.x_fifotail = 0, !.x_eof = 0]

\* tail slide / reset when tailTime is not the block's time
TailSync(xx, bs) ==
    IF xx.x_m5TailTime = bs THEN xx
    ELSE LET time_out == bs - xx.x_m5TailTime
             x1 == IF time_out < 0 THEN FifoReset(xx) ELSE xx
             forward_limit == IF x1.x_fifohead < x1.x_fifotail
                              THEN x1.x_fifosize ELSE x1.x_fifohead
         IN IF time_out >= 0 /\ time_out + x1.x_fifotail < forward_limit
            THEN [x1 EXCEPT !.x_fifotail = x1.x_fifotail + time_out,
                            !.x_m5TailTime = bs]
            ELSE FifoReset(x1)

\* the FIFO as the block callback leaves it before it tests for data: reset on
\* a pending start / loop request, tail brought to the block's time, and the
\* time request of an empty FIFO
StreamSync(xx, bs) ==
    LET xc == IF xx.x_m5LoopLengthRequest # 0
              THEN FifoReset([xx EXCEPT !.x_m5LoopLengthRequest = 0]) ELSE xx
        xd == TailSync(xc, bs)
    IN IF xd.x_fifohead = xd.x_fifotail
       THEN [xd EXCEPT !.x_m5HeadTimeRequest = bs, !.x_m5TailTime = bs]
       ELSE xd

\* end time for END_AT_LOOP, computed in the block callback
EndAtLoop(xx, bs) ==
    LET loop_length == IF xx.x_m5LoopLength = LOOP_SELF
                       THEN xx.x_m5SoundFileFramesAvailableFromOnset
                       ELSE xx.x_m5LoopLength
        loop_count == IF xx.x_m5PlayStartTime <= bs
                      THEN ((bs - xx.x_m5PlayStartTime) \div loop_length) + 1
                      ELSE 1
    IN IF loop_length <= 0 THEN xx.x_m5PlayStartTime
       ELSE xx.x_m5PlayStartTime + loop_length * loop_count

\* end of the streaming branch: wrap the tail, count down to the next signal
PerformTail(xx) ==
    LET x1 == IF xx.x_fifotail >= xx.x_fifosize
              THEN [xx EXCEPT !.x_fifotail = 0] ELSE xx
    IN IF x1.x_sigcountdown - 1 <= 0
       THEN [x1 EXCEPT !.x_sigcountdown = x1.x_sigperiod]
       ELSE [x1 EXCEPT !.x_sigcountdown = x1.x_sigcountdown - 1]

\* one block has been produced: logical time moves on by one block, up to
\* the horizon of the exploration
NextBlock(h) ==
    [h EXCEPT !.now = IF h.now < MaxTime THEN h.now + MAXVECSIZE ELSE h.now,
              !.sent = FALSE, !.msg = "none"]

\* what the block callback has just produced, for the properties
Produced(k, out, bs, xx) ==
    [ out |-> out, kind |-> k, bs |-> bs, start |-> xx.x_m5PlayStartTime,
      end |-> xx.x_m5PlayEndTime ]

\* audio of the open file has reached the outlet
Heard(h, decoded) == [h EXCEPT !.audio = h.audio \/ decoded > 0]

\* no deferred callback is pending: the host runs them before the next block
ClocksIdle ==
    ~host.x_clock /\ ~host.x_m5FramesOutClock /\ ~host.x_m5StartTimeOutClock

\* the anchor's start time is fixed by the first request for the time
AnchorRead(h) ==
    IF x.x_m5TimeAnchor /\ h.anchor = MARK_TIME_ANCHOR
    THEN [h EXCEPT !.anchor = h.now] ELSE h

\* m5_readsf_perform, state STREAM, up to the three cases over the block
PerformStream ==
    LET fa == FramesFromSf
        known == x.x_m5SoundFileFramesAvailableFromOnset = 0 /\ fa > 0
        h0 == IF known THEN [hist EXCEPT !.clkCur = TRUE] ELSE hist
        c0 == IF known THEN SchedFramesOut(host) ELSE host
        vecsize == x.x_vecsize
    IN
    IF x.x_m5SoundFileFramesAvailableFromOnset = 0 /\ fa = 0
    THEN \* error, or still waiting for the file: silence
         /\ IF x.x_fileerror # 0
            THEN /\ x' = [x EXCEPT !.x_state = "IDLE"]
                 /\ host' = NextBlock([SchedFramesOut(host) EXCEPT !.x_clock = TRUE])
                 /\ hist' = [hist EXCEPT !.clkCur = TRUE]
                 /\ blk' = Produced("error", Zeros(vecsize), 0, x)
            ELSE /\ x' = x
                 /\ host' = NextBlock(host)
                 /\ hist' = hist
                 /\ blk' = Produced("wait", Zeros(vecsize), 0, x)
         /\ UNCHANGED <<wk, rt, mutex, build>>
    ELSE
    LET xa == [x EXCEPT !.x_m5SoundFileFramesAvailableFromOnset = fa]
        bs == BlockStartTime
        c1 == AnchorRead(c0)
        xb == IF xa.x_m5PlayStartTime = START_NOW
              THEN [xa EXCEPT !.x_m5PlayStartTime = bs] ELSE xa
        xe == StreamSync(xb, bs)
        wantbytes == vecsize * xe.sf_bytesperframe
    IN
    IF xe.x_eof = 0 /\ xe.x_fifohead >= xe.x_fifotail
       /\ xe.x_fifohead < xe.x_fifotail + wantbytes - 1
    THEN \* FIFO not ready: silence, signal the child
         /\ x' = xe
         /\ wk' = SignalRequest(wk)
         /\ host' = NextBlock(c1)
         /\ hist' = h0
         /\ blk' = Produced("underfull", Zeros(vecsize), bs, xe)
         /\ UNCHANGED <<rt, mutex, build>>
    ELSE IF xe.x_fileerror # 0
    THEN /\ x' = [xe EXCEPT !.x_state = "IDLE"]
         /\ host' = NextBlock([c1 EXCEPT !.x_clock = TRUE])
         /\ hist' = h0
         /\ blk' = Produced("error", Zeros(vecsize), bs, xe)
         /\ UNCHANGED <<wk, rt, mutex, build>>
    ELSE
    LET xf == IF xe.x_m5PlayEndTime = END_AT_LOOP
              THEN [xe EXCEPT !.x_m5PlayEndTime = EndAtLoop(xe, bs)] ELSE xe
    IN
    \E b \in Builds(xf.x_m5PlayEndTime = DBL_MAX) :
    LET endT == SizeT(xf.x_m5PlayEndTime, b)
        startT == xf.x_m5PlayStartTime
    IN
    /\ build' = b
    /\ IF bs + vecsize > endT
       THEN \* the block passes the end time
         LET xfersize == IF bs >= endT THEN 0 ELSE Min(endT - bs, vecsize)
         IN \E junk \in JunkFor(xf.x_fifotail, xfersize) :
              /\ x' = [xf EXCEPT !.x_state = "IDLE", !.x_requestcode = "CLOSE"]
              /\ host' = NextBlock([c1 EXCEPT !.x_clock = TRUE])
              /\ hist' = Heard(h0, xfersize)
              /\ blk' = Produced("end",
                                 XferIn(xf.x_fifotail, xfersize, junk)
                                   \o Zeros(vecsize - xfersize), bs, xf)
              /\ UNCHANGED <<wk, rt, mutex>>
       ELSE IF bs < startT
       THEN \* the start time is in this block or later: zero the part before
            \* it with the mutex released
         /\ x' = xf
         /\ rt' = [rt EXCEPT !.pc = "perf_mid", !.bs = bs,
                             !.zerosize = Min(startT - bs, vecsize)]
         /\ host' = c1
         /\ hist' = h0
         /\ blk' = NoBlock
         /\ UNCHANGED <<wk, mutex>>
       ELSE \* regular playback
         \E junk \in JunkFor(xf.x_fifotail, vecsize) :
           LET xg == [xf EXCEPT !.x_fifotail = xf.x_fifotail + vecsize * xf.sf_bytesperframe,
                                !.x_m5TailTime = xf.x_m5TailTime + vecsize]
           IN /\ x' = PerformTail(xg)
              /\ wk' = IF xg.x_sigcountdown - 1 <= 0 THEN SignalRequest(wk) ELSE wk
              /\ host' = NextBlock(c1)
              /\ hist' = Heard(h0, vecsize)
              /\ blk' = Produced("full", XferIn(xf.x_fifotail, vecsize, junk), bs, xf)
              /\ UNCHANGED <<rt, mutex>>

\* m5_readsf_perform, states other than STREAM
PerformNoStream ==
    LET vecsize == x.x_vecsize IN
    IF x.x_state = "STARTUP"
    THEN LET fa == FramesFromSf
             known == x.x_m5SoundFileFramesAvailableFromOnset = 0 /\ fa > 0
             xa == IF known
                   THEN [x EXCEPT !.x_m5SoundFileFramesAvailableFromOnset = fa,
                                  !.x_state = "STARTUP_2"]
                   ELSE x
             err == x.x_fileerror # 0
         IN /\ x' = IF err THEN [xa EXCEPT !.x_state = "IDLE"] ELSE xa
            /\ host' = NextBlock([host EXCEPT
                          !.x_m5FramesOutClock = host.x_m5FramesOutClock \/ known \/ err,
                          !.x_clock = host.x_clock \/ err])
            /\ hist' = IF known \/ err
                       THEN [hist EXCEPT !.clkCur = TRUE] ELSE hist
            /\ blk' = Produced("idle", Zeros(vecsize), 0, x)
            /\ UNCHANGED <<wk, rt, mutex, build>>
    ELSE /\ blk' = Produced("idle", Zeros(vecsize), 0, x)
         /\ host' = NextBlock(host)
         /\ UNCHANGED <<x, wk, rt, mutex, build, hist>>

\* m5_readsf_perform: the block callback of the playback object
ReadPerform ==
    /\ kind = "readsf"
    /\ ParentIdle
    /\ ClocksIdle
    /\ UNCHANGED <<kind, buf>>
    /\ IF x.x_state = "STREAM" THEN PerformStream ELSE PerformNoStream

\* the block callback while logical time is below the horizon
m5_readsf_perform == host.now < MaxTime /\ ReadPerform

\* m5_readsf_perform, start-time case, after the mutex is taken again
m5_readsf_perform_resume ==
    /\ kind = "readsf"
    /\ rt.pc = "perf_mid" /\ mutex = "free"
    /\ UNCHANGED <<kind, build, buf, mutex>>
    /\ LET vecsize == x.x_vecsize
           xfersize == vecsize - rt.zerosize
           xg == [x EXCEPT !.x_fifotail = x.x_fifotail + vecsize * x.sf_bytesperframe,
                           !.x_m5TailTime = x.x_m5TailTime + vecsize]
       IN \E junk \in JunkFor(x.x_fifotail, xfersize) :
            /\ x' = PerformTail(xg)
            /\ wk' = IF xg.x_sigcountdown - 1 <= 0 THEN SignalRequest(wk) ELSE wk
            /\ rt' = [rt EXCEPT !.pc = "idle", !.zerosize = 0, !.bs = 0]
            /\ host' = NextBlock(host)
            /\ hist' = Heard(hist, xfersize)
            /\ blk' = Produced("prefix",
                               Zeros(rt.zerosize)
                                 \o XferIn(x.x_fifotail, xfersize, junk),
                               rt.bs, x)

\* m5_readsf_free / m5_writesf_free: request QUIT, then signal and wait
\* until the child has reset the request code
m5_readsf_free ==
    /\ ParentIdle
    /\ x' = [x EXCEPT !.x_requestcode = "QUIT"]
    /\ wk' = SignalRequest(wk)
    /\ rt' = [rt EXCEPT !.pc = "free_wait"]
    /\ UNCHANGED <<kind, build, buf, mutex, host, hist>>

\* the destructor's loop after a wake-up on the answer condition
FreeWoken ==
    /\ rt.pc = "free_woken" /\ mutex = "free"
    /\ IF x.x_requestcode # "NOTHING"
       THEN /\ wk' = SignalRequest(wk)
            /\ rt' = [rt EXCEPT !.pc = "free_wait"]
       ELSE /\ wk' = wk
            /\ rt' = [rt EXCEPT !.pc = "joining"]
    /\ UNCHANGED <<kind, build, x, buf, mutex, host, hist>>

\* pthread_join returns once the child has left its main function
FreeJoin ==
    /\ rt.pc = "joining" /\ wk.pc = "exited"
    /\ rt' = [rt EXCEPT !.pc = "freed"]
    /\ UNCHANGED <<kind, build, x, buf, wk, mutex, host, hist>>

Free == m5_readsf_free \/ FreeWoken \/ FreeJoin

RMessage ==
    \/ \E t \in {START_NOW} \cup StartArgs : m5_readsf_start(t)
    \/ m5_readsf_stop
    \/ \E e \in {END_NEVER} \cup EndArgs : m5_readsf_stop_at(e)
    \/ \E ll \in LoopLengthArgs : m5_readsf_loop_length(ll)

\* ===================== capture: the child thread =====================

\* top of while (1) in m5_writesf_child_main: dispatch on the request code
WChildTop ==
    /\ kind = "writesf"
    /\ ChildAt({"entry", "woken_top"}, {"top"})
    /\ UNCHANGED <<kind, build, buf, host>>
    /\ CASE x.x_requestcode = "NOTHING" ->
              /\ wk' = [wk EXCEPT !.pc = "wait_top"]
              /\ rt' = SignalAnswer(rt)
              /\ mutex' = "free"
              /\ UNCHANGED <<x, hist>>
         [] x.x_requestcode = "OPEN" ->
              \* sf is copied from x_sf; a file still open there is closed first
              /\ x' = [x EXCEPT !.x_requestcode = "BUSY", !.x_fileerror = 0]
              /\ wk' = [wk EXCEPT !.filename = x.x_filename,
                                  !.sf_fd = x.sf_fd,
                                  !.frameswritten = x.x_frameswritten,
                                  !.pc = IF x.sf_fd THEN "open_closing"
                                         ELSE "open_opening"]
              /\ mutex' = "free"
              /\ UNCHANGED <<rt, hist>>
         [] x.x_requestcode \in {"CLOSE", "QUIT"} ->
              IF wk.sf_fd
              THEN /\ wk' = [wk EXCEPT !.sf_fd = x.sf_fd,
                                       !.frameswritten = x.x_frameswritten,
                                       !.quit = (x.x_requestcode = "QUIT"),
                                       !.pc = "close_closing"]
                   /\ mutex' = "free"
                   /\ UNCHANGED <<x, rt, hist>>
              ELSE /\ x' = [x EXCEPT !.x_requestcode = "NOTHING",
                                     !.x_m5FramesWrittenReport = x.x_frameswritten]
                   /\ wk' = [wk EXCEPT !.pc = IF x.x_requestcode = "QUIT"
                                              THEN "exited" ELSE "top"]
                   /\ mutex' = IF x.x_requestcode = "QUIT" THEN "free" ELSE "wk"
                   /\ rt' = SignalAnswer(rt)
                   /\ hist' = hist
         [] OTHER ->
              /\ wk' = [wk EXCEPT !.pc = "top"]
              /\ mutex' = "wk"
              /\ UNCHANGED <<x, rt, hist>>

\* REQUEST_CLOSE / REQUEST_QUIT: m5_soundfile_finishwrite and sys_close are
\* done with the mutex released; the header gets the frame count
WChildClosed ==
    /\ kind = "writesf"
    /\ ChildAt({"close_closing"}, {})
    /\ UNCHANGED <<kind, build, buf, host>>
    /\ x' = [x EXCEPT !.sf_fd = FALSE, !.x_requestcode = "NOTHING",
                      !.x_m5FramesWrittenReport = x.x_frameswritten]
    /\ hist' = hist
    /\ wk' = [ChildLocals EXCEPT !.pc = IF wk.quit THEN "exited" ELSE "top"]
    /\ mutex' = IF wk.quit THEN "free" ELSE "wk"
    /\ rt' = SignalAnswer(rt)

\* OPEN with a file still open: it is finished and closed first
WChildOpenClosedOld ==
    /\ kind = "writesf"
    /\ ChildAt({"open_closing"}, {})
    /\ UNCHANGED <<kind, build, buf, host, rt>>
    /\ x' = [x EXCEPT !.sf_fd = FALSE]
    /\ hist' = hist
    /\ IF x.x_requestcode # "BUSY"
       THEN /\ wk' = [ChildLocals EXCEPT !.pc = "top"]
            /\ mutex' = "wk"
       ELSE /\ wk' = [wk EXCEPT !.sf_fd = FALSE, !.frameswritten = 0,
                                !.pc = "open_opening"]
            /\ mutex' = "free"

\* the loop condition of the write loop
WriteLoopGoes(xx) ==
    \/ xx.x_requestcode = "BUSY"
    \/ xx.x_requestcode = "CLOSE" /\ xx.x_fifohead # xx.x_fifotail

\* the label bail, up to the point where the mutex is released for the close
\* of the file (if it is open) or the loop condition is tested again
Bail(xx, w, r) ==
    LET x1 == IF xx.x_requestcode = "BUSY"
              THEN [xx EXCEPT !.x_requestcode = "NOTHING"] ELSE xx
    IN IF w.sf_fd
       THEN /\ x' = x1
            /\ wk' = [w EXCEPT !.pc = "bail_closing"]
            /\ mutex' = "free"
            /\ rt' = r
       ELSE /\ x' = x1
            /\ wk' = [w EXCEPT !.pc = IF WriteLoopGoes(x1) THEN "loop" ELSE "top"]
            /\ mutex' = "wk"
            /\ rt' = SignalAnswer(r)

\* OPEN: m5_create_soundfile has returned
WChildOpened ==
    /\ kind = "writesf"
    /\ ChildAt({"open_opening"}, {})
    /\ UNCHANGED <<kind, build, buf, host>>
    /\ LET ok == wk.filename.ok
           w1 == [wk EXCEPT !.sf_fd = ok, !.filename = NoFile, !.frameswritten = 0]
       IN IF ~ok
          THEN /\ Bail([x EXCEPT !.sf_fd = FALSE, !.x_eof = 1, !.x_fileerror = EIO],
                       w1, rt)
               /\ hist' = hist
          ELSE IF x.x_requestcode # "BUSY"
          THEN /\ wk' = [w1 EXCEPT !.pc = "top"]
               /\ mutex' = "wk"
               /\ UNCHANGED <<x, rt>>
               /\ hist' = [hist EXCEPT !.disk = <<>>]
          ELSE /\ x' = [x EXCEPT !.sf_fd = TRUE, !.x_fifotail = 0,
                                 !.x_frameswritten = 0]
               /\ wk' = [w1 EXCEPT !.pc = "loop"]
               /\ mutex' = "wk"
               /\ rt' = rt
               /\ hist' = [hist EXCEPT !.disk = <<>>]

\* one pass of the write loop up to the write (mutex released) or the wait
WChildLoop ==
    /\ kind = "writesf"
    /\ ChildAt({"woken_room"}, {"loop"})
    /\ UNCHANGED <<kind, build, buf, host, hist>>
    /\ IF ~WriteLoopGoes(x)
       THEN /\ wk' = [wk EXCEPT !.pc = "top"]
            /\ mutex' = "wk"
            /\ UNCHANGED <<x, rt>>
       ELSE IF \/ x.x_fifohead < x.x_fifotail
               \/ x.x_fifohead >= x.x_fifotail + WRITESIZE
               \/ x.x_requestcode = "CLOSE" /\ x.x_fifohead # x.x_fifotail
       THEN LET span == (IF x.x_fifohead < x.x_fifotail
                         THEN x.x_fifosize ELSE x.x_fifohead) - x.x_fifotail
            IN /\ wk' = [wk EXCEPT !.writebytes = Min(span, READSIZE),
                                   !.fifotail = x.x_fifotail,
                                   !.sf_fd = x.sf_fd,
                                   !.pc = "io"]
               /\ mutex' = "free"
               /\ UNCHANGED <<x, rt>>
       ELSE /\ wk' = [wk EXCEPT !.pc = "wait_room"]
            /\ rt' = SignalAnswer(rt)
            /\ mutex' = "free"
            /\ x' = x

\* write(sf.sf_fd, buf + fifotail, writebytes) with the mutex released
WChildIo ==
    /\ kind = "writesf"
    /\ wk.pc = "io"
    /\ UNCHANGED <<kind, build, x, buf, mutex, rt, host>>
    /\ \E ioerr \in IF wk.sf_fd THEN {FALSE, TRUE} ELSE {TRUE} :
         IF ioerr
         THEN /\ wk' = [wk EXCEPT !.byteswritten = -1, !.pc = "io_done"]
              /\ hist' = hist
         ELSE /\ wk' = [wk EXCEPT !.byteswritten = wk.writebytes, !.pc = "io_done"]
              /\ hist' = [hist EXCEPT !.disk =
                            hist.disk \o [i \in 1..wk.writebytes |->
                                            BufAt(buf, wk.fifotail + i - 1, 0)]]

\* after the write, with the mutex held again
WChildIoDone ==
    /\ kind = "writesf"
    /\ ChildAt({"io_done"}, {})
    /\ UNCHANGED <<kind, build, buf, host, hist>>
    /\ LET w0 == PassDone(wk) IN
       IF x.x_requestcode \notin {"BUSY", "CLOSE"}
       THEN /\ wk' = [w0 EXCEPT !.pc = "top"]
            /\ mutex' = "wk"
            /\ UNCHANGED <<x, rt>>
       ELSE IF wk.byteswritten < 0
       THEN Bail([x EXCEPT !.x_fileerror = EIO], w0, rt)
       ELSE IF wk.fifotail # x.x_fifotail
       THEN Bail(x, w0, rt)
       ELSE LET tail1 == x.x_fifotail + wk.byteswritten
                x1 == [x EXCEPT !.x_fifotail =
                                  IF tail1 = x.x_fifosize THEN 0 ELSE tail1,
                                !.x_frameswritten = x.x_frameswritten
                                  + wk.byteswritten \div x.sf_bytesperframe]
            IN /\ x' = x1
               /\ wk' = [w0 EXCEPT !.pc = IF WriteLoopGoes(x1) THEN "loop" ELSE "top"]
               /\ mutex' = "wk"
               /\ rt' = SignalAnswer(rt)

\* bail: the file has been closed with the mutex released
WChildBailClosed ==
    /\ kind = "writesf"
    /\ ChildAt({"bail_closing"}, {})
    /\ UNCHANGED <<kind, build, buf, host, hist>>
    /\ LET x1 == [x EXCEPT !.x_eof = 1, !.sf_fd = FALSE]
       IN /\ x' = x1
          /\ wk' = [wk EXCEPT !.sf_fd = FALSE,
                              !.pc = IF WriteLoopGoes(x1) THEN "loop" ELSE "top"]
          /\ mutex' = "wk"
          /\ rt' = SignalAnswer(rt)

WChild ==
    \/ WChildTop \/ WChildClosed \/ WChildOpenClosedOld \/ WChildOpened
    \/ WChildLoop \/ WChildIo \/ WChildIoDone \/ WChildBailClosed

\* ===================== capture: the parent (realtime) side =====================

\* the input signal: the sample the inlet carries at host time t
InputAt(t) == t + 1

\* m5_find_threshold over the first nframes samples of the input block
m5_find_threshold(nframes, threshold) ==
    LET hits == {j \in 0..(nframes - 1) : InputAt(host.now + j) >= threshold}
    IN IF hits = {} THEN NOT_FOUND
       ELSE CHOOSE j \in hits : \A k \in hits : j <= k

\* m5_soundfile_xferout_sample, 16-bit little-endian: nframes samples of the
\* input block from offset onsetframes on, encoded at buf + at
m5_soundfile_xferout_sample(b, at, nframes, onsetframes) ==
    [i \in 0..(Bufsize - 1) |->
       IF i >= at /\ i < at + nframes * BytesPerSample
       THEN LET v == InputAt(host.now + onsetframes + ((i - at) \div BytesPerSample))
            IN IF (i - at) % BytesPerSample = 0 THEN v % 256 ELSE v \div 256
       ELSE b[i]]

\* roominfifo, a size_t: the difference of two ints wraps when it is negative
RoomInFifo(xx) ==
    LET d == xx.x_fifotail - xx.x_fifohead
    IN IF d = 0 THEN xx.x_fifosize
       ELSE IF d < 0 THEN d + SIZE_RANGE ELSE d

\* m5_writesf_perform from the transfer on: the wait is over (or was not needed)
WPerformXfer(xx, vecsize, tailpush, is_finished) ==
    IF xx.x_eof # 0
    THEN /\ x' = [xx EXCEPT !.x_state = "IDLE"]
         /\ wk' = SignalRequest(wk)
         /\ buf' = buf
         /\ host' = NextBlock(host)
         /\ hist' = hist
         /\ blk' = Produced("eof", NoBlock.out, BlockStartTime, xx)
    ELSE LET wantbytes == vecsize * xx.sf_bytesperframe
             head1 == xx.x_fifohead + wantbytes
             x1 == [xx EXCEPT
                      !.x_m5PerformedFifoSize =
                          Min(xx.x_m5PerformedFifoSize + wantbytes, xx.x_fifosize),
                      !.x_fifohead = IF head1 >= xx.x_fifosize THEN 0 ELSE head1]
             starts == tailpush = 0 /\ xx.x_state = "STREAM_JUST_STARTING"
                       /\ vecsize > 0
             x2 == IF tailpush # 0 THEN [x1 EXCEPT !.x_fifotail = x1.x_fifohead]
                   ELSE IF starts THEN [x1 EXCEPT !.x_state = "STREAM"]
                   ELSE x1
             x3 == IF is_finished
                   THEN [x2 EXCEPT !.x_state = "IDLE_2", !.x_requestcode = "CLOSE"]
                   ELSE IF x2.x_sigcountdown - 1 <= 0
                   THEN [x2 EXCEPT !.x_sigcountdown = x2.x_sigperiod]
                   ELSE [x2 EXCEPT !.x_sigcountdown = x2.x_sigcountdown - 1]
         IN /\ x' = x3
            /\ buf' = m5_soundfile_xferout_sample(buf, xx.x_fifohead, vecsize, 0)
            /\ wk' = IF is_finished \/ x2.x_sigcountdown - 1 <= 0
                     THEN SignalRequest(wk) ELSE wk
            /\ host' = NextBlock([host EXCEPT !.x_m5StartTimeOutClock =
                                    host.x_m5StartTimeOutClock \/ starts])
            /\ hist' = IF is_finished THEN [hist EXCEPT !.fin = "end"] ELSE hist
            /\ blk' = Produced(IF is_finished THEN "fin" ELSE "rec", NoBlock.out,
                               BlockStartTime, x3)

\* the wait loop of m5_writesf_perform: wait for the child while there is no
\* room for the block, then transfer
WPerformWait(xx, vecsize, tailpush, is_finished) ==
    IF xx.x_eof = 0 /\ RoomInFifo(xx) < vecsize * xx.sf_bytesperframe + 1
    THEN /\ x' = xx
         /\ wk' = SignalRequest(wk)
         /\ rt' = [rt EXCEPT !.pc = "perf_wait", !.vecsize = vecsize,
                             !.tailpush = tailpush, !.is_finished = is_finished,
                             !.bs = 0]
         /\ hist' = [hist EXCEPT !.blocked = TRUE]
         /\ blk' = NoBlock
         /\ UNCHANGED <<buf, host>>
    ELSE /\ WPerformXfer(xx, vecsize, tailpush, is_finished)
         /\ rt' = [rt EXCEPT !.pc = "idle", !.vecsize = 0, !.tailpush = 0,
                             !.is_finished = FALSE, !.bs = 0]

\* m5_writesf_perform after the threshold detection: where the block lies
\* relative to the end time and the start time
WPerformPlace(xx, bs, b) ==
    LET vs == xx.x_vecsize
        endT == SizeT(xx.x_m5PlayEndTime, b)
        startT == SizeT(xx.x_m5PlayStartTime, b)
    IN
    IF bs + vs > endT
    THEN LET xfersize == SSizeT(xx.x_m5PlayEndTime, b) - bs
         IN WPerformWait(xx, IF xfersize > 0 THEN xfersize ELSE 0, 0, TRUE)
    ELSE IF bs <= startT
    THEN IF bs + vs > xx.x_m5PlayStartTime
         THEN LET vecstart == startT - bs
              IN WPerformWait([xx EXCEPT !.x_fifotail = vecstart * xx.sf_bytesperframe,
                                         !.x_fifohead = vecstart * xx.sf_bytesperframe,
                                         !.x_m5WriteStartTimeReport =
                                             xx.x_m5PlayStartTime],
                              vs - vecstart, 0, FALSE)
         ELSE WPerformWait(xx, vs, vs, FALSE)
    ELSE IF xx.x_state = "STREAM_JUST_STARTING" /\ bs - startT > 0
    THEN LET overdue == bs - startT
             ob0 == overdue * xx.sf_bytesperframe
             ob1 == IF ob0 >= xx.x_fifosize
                    THEN xx.x_fifosize - xx.sf_bytesperframe ELSE ob0
             overdueBytes == Min(ob1, xx.x_m5PerformedFifoSize)
             tail0 == xx.x_fifotail - overdueBytes
             actualFrames == overdueBytes \div xx.sf_bytesperframe
         IN WPerformWait([xx EXCEPT !.x_fifotail =
                                      IF tail0 < 0 THEN xx.x_fifosize + tail0 ELSE tail0,
                                    !.x_m5WriteStartTimeReport =
                                      xx.x_m5PlayStartTime + (overdue - actualFrames)],
                         vs, 0, FALSE)
    ELSE WPerformWait(xx, vs, 0, FALSE)

\* m5_writesf_perform: the block callback of the capture object
m5_writesf_perform ==
    /\ kind = "writesf"
    /\ ParentIdle
    /\ ClocksIdle
    /\ host.now < MaxTime
    /\ UNCHANGED <<kind, mutex>>
    /\ IF x.x_state \in {"STREAM", "STREAM_JUST_STARTING"}
       THEN LET bs == BlockStartTime
                xa == IF x.x_m5PlayStartTime = START_NOW
                      THEN [x EXCEPT !.x_m5PlayStartTime = bs,
                                     !.x_m5WriteStartTimeReport = bs]
                      ELSE x
            IN IF xa.x_m5PlayStartTime = START_AT_THRESHOLD
               THEN \* the threshold is looked for with the mutex released
                    /\ x' = xa
                    /\ rt' = [rt EXCEPT !.pc = "perf_mid", !.bs = bs]
                    /\ blk' = NoBlock
                    /\ UNCHANGED <<build, buf, wk, host, hist>>
               ELSE \E b \in Builds(xa.x_m5PlayEndTime = DBL_MAX) :
                      /\ build' = b
                      /\ WPerformPlace(xa, bs, b)
       ELSE IF x.x_state = "IDLE_2"
       THEN /\ IF x.x_m5FramesWrittenReport # FRAMES_NOT_UPDATED
               THEN /\ x' = [x EXCEPT !.x_m5SoundFileFramesAvailableFromOnset =
                                        x.x_m5FramesWrittenReport,
                                      !.x_m5FramesWrittenReport = 0,
                                      !.x_state = "IDLE"]
                    /\ host' = NextBlock(SchedFramesOut(host))
               ELSE /\ x' = x
                    /\ host' = NextBlock(host)
            /\ blk' = Produced("idle2", NoBlock.out, 0, x)
            /\ UNCHANGED <<build, buf, wk, rt, hist>>
       ELSE /\ host' = NextBlock(host)
            /\ blk' = Produced("idle", NoBlock.out, 0, x)
            /\ UNCHANGED <<build, x, buf, wk, rt, hist>>

\* m5_writesf_perform after m5_find_threshold, with the mutex taken again
m5_writesf_perform_resume ==
    /\ kind = "writesf"
    /\ rt.pc = "perf_mid" /\ mutex = "free"
    /\ UNCHANGED <<kind, mutex>>
    /\ LET started == m5_find_threshold(x.x_vecsize, x.x_m5PlayStartThreshold)
           xa == IF started # NOT_FOUND
                 THEN [x EXCEPT !.x_m5PlayStartTime = rt.bs + started] ELSE x
       IN \E b \in Builds(DBL_MAX \in {xa.x_m5PlayEndTime, xa.x_m5PlayStartTime}) :
            /\ build' = b
            /\ WPerformPlace(xa, rt.bs, b)

\* m5_writesf_perform woken from its wait on the answer condition
m5_writesf_perform_woken ==
    /\ kind = "writesf"
    /\ rt.pc = "perf_woken" /\ mutex = "free"
    /\ UNCHANGED <<kind, build, mutex>>
    /\ WPerformWait(x, rt.vecsize, rt.tailpush, rt.is_finished)

\* m5_writesf_stop without arguments, as a message or called by open
WriteStop(xx) ==
    IF WriteStopAccepts(xx)
    THEN [xx EXCEPT !.x_state = "IDLE_2", !.x_requestcode = "CLOSE"]
    ELSE xx

\* m5_writesf_open, first part: stop what is going on, then take the mutex
m5_writesf_open(file) ==
    /\ kind = "writesf"
    /\ ParentIdle
    /\ x' = IF x.x_state # "IDLE" THEN WriteStop(x) ELSE x
    /\ wk' = IF x.x_state \in {"STREAM", "STREAM_JUST_STARTING", "STARTUP"}
             THEN SignalRequest(wk) ELSE wk
    /\ rt' = [rt EXCEPT !.pc = "open_mid", !.file = file]
    /\ hist' = IF x.x_state \in {"STREAM", "STREAM_JUST_STARTING"}
               THEN [hist EXCEPT !.fin = "stop"] ELSE hist
    /\ UNCHANGED <<kind, build, buf, mutex>>

\* m5_writesf_open, second part: wait until the child has finished writing,
\* then set up the new file and request OPEN
m5_writesf_open_wait ==
    /\ kind = "writesf"
    /\ rt.pc \in {"open_mid", "open_woken"} /\ mutex = "free"
    /\ UNCHANGED <<kind, build, buf, mutex, host>>
    /\ blk' = NoBlock
    /\ IF x.x_requestcode # "NOTHING"
       THEN /\ wk' = SignalRequest(wk)
            /\ rt' = [rt EXCEPT !.pc = "open_wait"]
            /\ UNCHANGED <<x, hist>>
       ELSE LET fifosize == x.x_bufsize
                              - (x.x_bufsize % (x.sf_bytesperframe * MAXVECSIZE))
            IN /\ x' = [x EXCEPT !.x_filename = rt.file,
                                 !.x_frameswritten = 0,
                                 !.x_requestcode = "OPEN",
                                 !.x_fifotail = 0,
                                 !.x_fifohead = 0,
                                 !.x_eof = 0,
                                 !.x_fileerror = 0,
                                 !.x_state = "STARTUP",
                                 !.x_m5FramesWrittenReport = FRAMES_NOT_UPDATED,
                                 !.x_m5PlayStartTime = START_NOW,
                                 !.x_m5PlayEndTime = END_NEVER,
                                 !.x_m5PerformedFifoSize = 0,
                                 !.x_fifosize = fifosize,
                                 !.x_sigcountdown =
                                     fifosize \div (16 * x.sf_bytesperframe * x.x_vecsize),
                                 !.x_sigperiod =
                                     fifosize \div (16 * x.sf_bytesperframe * x.x_vecsize)]
               /\ wk' = SignalRequest(wk)
               /\ rt' = [rt EXCEPT !.pc = "idle", !.file = NoFile]
               /\ hist' = [hist EXCEPT !.opened = TRUE, !.infoOut = 0, !.infoVal = 0,
                                       !.clkCur = FALSE, !.fin = "none",
                                       !.blocked = FALSE]

\* m5_writesf_start: t is START_NOW (no argument), START_AT_THRESHOLD (one
\* argument, the threshold thr) or the start time of a frame time code
m5_writesf_start(t, thr) ==
    /\ kind = "writesf"
    /\ ParentIdle
    /\ WriteStartAccepts(x)
    /\ x' = [x EXCEPT !.x_state = "STREAM_JUST_STARTING",
                      !.x_m5PlayStartTime = t,
                      !.x_m5PlayStartThreshold =
                          IF t = START_AT_THRESHOLD THEN thr
                          ELSE x.x_m5PlayStartThreshold,
                      !.x_m5LocalTimeAnchor = host.now]
    /\ wk' = SignalRequest(wk)
    /\ UNCHANGED <<kind, build, buf, mutex, rt, hist>>

\* m5_writesf_stop without arguments
m5_writesf_stop ==
    /\ kind = "writesf"
    /\ ParentIdle
    /\ WriteStopAccepts(x)
    /\ x' = WriteStop(x)
    /\ wk' = SignalRequest(wk)
    /\ hist' = IF x.x_state \in {"STREAM", "STREAM_JUST_STARTING"}
               THEN [hist EXCEPT !.fin = "stop"] ELSE hist
    /\ UNCHANGED <<kind, build, buf, mutex, rt>>

\* m5_writesf_stop <FTC>: e is the new end time
m5_writesf_stop_at(e) ==
    /\ kind = "writesf"
    /\ ParentIdle
    /\ WriteStopAccepts(x)
    /\ x' = [x EXCEPT !.x_m5PlayEndTime = e]
    /\ wk' = SignalRequest(wk)
    /\ UNCHANGED <<kind, build, buf, mutex, rt, hist>>

\* the clocks' callbacks of the capture object
m5_writesf_frame_out_tick ==
    /\ kind = "writesf"
    /\ rt.pc = "idle"
    /\ host.x_m5FramesOutClock
    /\ host' = [host EXCEPT !.x_m5FramesOutClock = FALSE]
    /\ hist' = [hist EXCEPT !.infoOut = Min(hist.infoOut + 1, 2),
                            !.infoVal = x.x_m5SoundFileFramesAvailableFromOnset]
    /\ UNCHANGED <<kind, build, x, buf, wk, mutex, rt>>

m5_writesf_start_time_tick ==
    /\ kind = "writesf"
    /\ rt.pc = "idle"
    /\ host.x_m5StartTimeOutClock
    /\ host' = [host EXCEPT !.x_m5StartTimeOutClock = FALSE]
    /\ UNCHANGED <<kind, build, x, buf, wk, mutex, rt, hist>>

WMessage ==
    \/ \E t \in {START_NOW} \cup StartArgs : m5_writesf_start(t, 0)
    \/ \E thr \in ThresholdArgs : m5_writesf_start(START_AT_THRESHOLD, thr)
    \/ m5_writesf_stop
    \/ \E e \in EndArgs : m5_writesf_stop_at(e)

\* a block is consumed by the host as soon as it is produced
Consumed(A) == A /\ blk' = NoBlock

\* a message from the patch; the patch sends one message per block at most
Sent(A) ==
    /\ ~host.sent
    /\ A
    /\ host' = [host EXCEPT !.sent = TRUE]
    /\ blk' = NoBlock

Next ==
    \/ Consumed(RChild)
    \/ \E f \in Files, o \in OnsetArgs : Sent(m5_readsf_open(f, o))
    \/ Sent(RMessage)
    \/ m5_readsf_perform
    \/ m5_readsf_perform_resume
    \/ Consumed(m5_readsf_tick)
    \/ Consumed(m5_readsf_frame_out_tick)
    \/ Consumed(WChild)
    \/ Sent(WMessage)
    \/ \E f \in {g \in Files : g.frames = 0} : Sent(m5_writesf_open(f))
    \/ m5_writesf_open_wait
    \/ m5_writesf_perform
    \/ m5_writesf_perform_resume
    \/ m5_writesf_perform_woken
    \/ Consumed(m5_writesf_frame_out_tick)
    \/ Consumed(m5_writesf_start_time_tick)

Spec == Init /\ [][Next]_vars

\* ----- the objects with their destructor -----
\* messages are start and stop without arguments; the object can be freed
\* whenever the parent is between two callbacks
FreeNext ==
    \/ Consumed(RChild)
    \/ \E f \in Files, o \in OnsetArgs : Sent(m5_readsf_open(f, o))
    \/ Sent(m5_readsf_start(START_NOW))
    \/ Sent(m5_readsf_stop)
    \/ m5_readsf_perform
    \/ Consumed(m5_readsf_tick)
    \/ Consumed(m5_readsf_frame_out_tick)
    \/ Consumed(WChild)
    \/ Sent(m5_writesf_start(START_NOW, 0))
    \/ Sent(m5_writesf_stop)
    \/ \E f \in {g \in Files : g.frames = 0} : Sent(m5_writesf_open(f))
    \/ m5_writesf_open_wait
    \/ m5_writesf_perform
    \/ m5_writesf_perform_woken
    \/ Consumed(m5_writesf_frame_out_tick)
    \/ Consumed(m5_writesf_start_time_tick)
    \/ Consumed(m5_readsf_free)
    \/ Consumed(FreeWoken)
    \/ Consumed(FreeJoin)

FreeSpec == Init /\ [][FreeNext]_vars

\* ----- playback with DSP running for ever -----
\* the block callback keeps running past the horizon (logical time then
\* stays at the horizon); messages arrive before the horizon only; the child
\* thread, the block callback and the clocks are scheduled fairly
LiveInit == Init /\ kind = "readsf"

LiveChild == Consumed(RChild)

LiveOpen ==
    /\ host.now < MaxTime
    /\ \E f \in {g \in Files : g.ok}, o \in OnsetArgs : Sent(m5_readsf_open(f, o))

LiveMessage ==
    /\ host.now < MaxTime
    /\ \/ Sent(m5_readsf_start(START_NOW))
       \/ \E e \in EndArgs : Sent(m5_readsf_stop_at(e))
       \/ \E ll \in LoopLengthArgs : Sent(m5_readsf_loop_length(ll))

LiveTick == Consumed(m5_readsf_tick)

LiveInfoTick == Consumed(m5_readsf_frame_out_tick)

LiveNext ==
    \/ LiveChild
    \/ LiveOpen
    \/ LiveMessage
    \/ ReadPerform
    \/ LiveTick
    \/ LiveInfoTick

LiveSpec ==
    /\ LiveInit /\ [][LiveNext]_vars
    /\ WF_vars(LiveChild) /\ WF_vars(ReadPerform)
    /\ WF_vars(LiveTick) /\ WF_vars(LiveInfoTick)

\* ----- the message handlers with their error returns -----
\* pd_error and return: the handler leaves the object as it is
Returns == UNCHANGED <<kind, build, x, buf, wk, mutex, rt, hist>>

\* m5_readsf_start, whatever the state
m5_readsf_start_msg(t) ==
    /\ kind = "readsf"
    /\ rt.pc = "idle"
    /\ IF ReadStartAccepts(x) THEN m5_readsf_start(t) ELSE Returns

\* m5_readsf_stop without arguments, whatever the state
m5_readsf_stop_msg ==
    /\ kind = "readsf"
    /\ rt.pc = "idle"
    /\ IF ReadStopAccepts(x) THEN m5_readsf_stop ELSE Returns

\* start, stop, loop_start or loop_length of the playback object with a
\* malformed or negative frame time code (non-positive for loop_length)
m5_readsf_badftc ==
    /\ kind = "readsf"
    /\ rt.pc = "idle"
    /\ Returns

\* m5_readsf_open with an unknown flag or no file name
m5_readsf_open_usage ==
    /\ kind = "readsf"
    /\ rt.pc = "idle"
    /\ Returns

\* m5_writesf_start, whatever the state
m5_writesf_start_msg(t, thr) ==
    /\ kind = "writesf"
    /\ rt.pc = "idle"
    /\ IF WriteStartAccepts(x) THEN m5_writesf_start(t, thr) ELSE Returns

\* m5_writesf_stop without arguments, whatever the state
m5_writesf_stop_msg ==
    /\ kind = "writesf"
    /\ rt.pc = "idle"
    /\ IF WriteStopAccepts(x) THEN m5_writesf_stop ELSE Returns

\* start or stop of the capture object with a malformed or negative frame
\* time code
m5_writesf_badftc ==
    /\ kind = "writesf"
    /\ rt.pc = "idle"
    /\ Returns

\* m5_writesf_open with arguments that m5_soundfiler_parsewriteargs rejects:
\* the handler has called m5_writesf_stop before it parses them
m5_writesf_open_usage ==
    /\ kind = "writesf"
    /\ ParentIdle
    /\ x' = IF x.x_state # "IDLE" THEN WriteStop(x) ELSE x
    /\ wk' = IF WriteStopAccepts(x) THEN SignalRequest(wk) ELSE wk
    /\ hist' = IF x.x_state \in {"STREAM", "STREAM_JUST_STARTING"}
               THEN [hist EXCEPT !.fin = "stop"] ELSE hist
    /\ UNCHANGED <<kind, build, buf, mutex, rt>>

\* a message from the patch (one per block at most) whose selector, or
\* "invalid" for rejected arguments, is remembered until the next block
Deliver(A, m) ==
    /\ ~host.sent
    /\ A
    /\ host' = [host EXCEPT !.sent = TRUE, !.msg = m]
    /\ blk' = NoBlock

MsgNext ==
    \/ Consumed(RChild)
    \/ \E f \in Files, o \in OnsetArgs : Deliver(m5_readsf_open(f, o), "open")
    \/ Deliver(m5_readsf_start_msg(START_NOW), "start")
    \/ Deliver(m5_readsf_stop_msg, "stop")
    \/ Deliver(m5_readsf_stop_at(END_NOW), "stop_now")
    \/ Deliver(m5_readsf_badftc, "invalid")
    \/ Deliver(m5_readsf_open_usage, "invalid")
    \/ m5_readsf_perform
    \/ Consumed(m5_readsf_tick)
    \/ Consumed(m5_readsf_frame_out_tick)
    \/ Consumed(WChild)
    \/ \E f \in {g \in Files : g.frames = 0} : Deliver(m5_writesf_open(f), "open")
    \/ m5_writesf_open_wait
    \/ Deliver(m5_writesf_start_msg(START_NOW, 0), "start")
    \/ Deliver(m5_writesf_stop_msg, "stop")
    \/ Deliver(m5_writesf_badftc, "invalid")
    \/ Deliver(m5_writesf_open_usage, "invalid")
    \/ m5_writesf_perform
    \/ m5_writesf_perform_woken
    \/ Consumed(m5_writesf_frame_out_tick)
    \/ Consumed(m5_writesf_start_time_tick)

MsgSpec == Init /\ [][MsgNext]_vars

\* ----- playback alone, without the fairness conditions -----
ReadSpec == LiveInit /\ [][LiveNext]_vars

\* ----- the threshold scan of one input block with several channels -----
ScanChannels == 2
ScanFrames == 2
ScanSamples == {-2, 0, 1}
ScanThresholds == {1, 2}

Abs(v) == IF v < 0 THEN 0 - v ELSE v

\* m5_find_threshold: channel after channel, the first frame of the first
\* channel that has a sample at or above the threshold
RECURSIVE ScanFrom(_, _, _, _, _)
ScanFrom(i, nchannels, nframes, vecs, threshold) ==
    IF i >= nchannels THEN NOT_FOUND
    ELSE LET hits == {j \in 0..(nframes - 1) : Abs(vecs[i][j]) >= threshold}
         IN IF hits # {}
            THEN CHOOSE j \in hits : \A k \in hits : j <= k
            ELSE ScanFrom(i + 1, nchannels, nframes, vecs, threshold)

m5_find_threshold_vecs(nchannels, nframes, vecs, threshold) ==
    ScanFrom(0, nchannels, nframes, vecs, threshold)

ScanInit == Init /\ kind = "writesf"

\* the START_AT_THRESHOLD part of one block callback, on the block vecs
\* that starts at blockStartTime
ScanBlock ==
    /\ kind = "writesf"
    /\ UNCHANGED <<kind, build, x, buf, wk, mutex, rt, host, hist>>
    /\ \E vecs \in [0..(ScanChannels - 1) -> [0..(ScanFrames - 1) -> ScanSamples]],
          the_threshold \in ScanThresholds,
          blockStartTime \in {0, ScanFrames} :
         LET started == m5_find_threshold_vecs(ScanChannels, ScanFrames,
                                               vecs, the_threshold)
         IN blk' = [kind |-> "scan", vecs |-> vecs, threshold |-> the_threshold,
                    blockStart |-> blockStartTime,
                    x_m5PlayStartTime |-> IF started # NOT_FOUND
                                          THEN blockStartTime + started
                                          ELSE START_AT_THRESHOLD]

ScanSpec == ScanInit /\ [][ScanBlock]_vars

\* ----- capture with the DSP switched off for some blocks -----

\* one block time passes without the block callback: the callback is on
\* the DSP chain only, the logical time goes on
DspOff ==
    /\ kind = "writesf"
    /\ ParentIdle
    /\ ClocksIdle
    /\ host.now < MaxTime
    /\ host' = NextBlock(host)
    /\ blk' = NoBlock
    /\ UNCHANGED <<kind, build, x, buf, wk, mutex, rt, hist>>

CaptureInit == Init /\ kind = "writesf"

CaptureNext ==
    \/ Consumed(WChild)
    \/ \E f \in {g \in Files : g.frames = 0} : Sent(m5_writesf_open(f))
    \/ m5_writesf_open_wait
    \/ \E t \in StartArgs : Sent(m5_writesf_start(t, 0))
    \/ Sent(m5_writesf_stop)
    \/ m5_writesf_perform
    \/ m5_writesf_perform_woken
    \/ Consumed(m5_writesf_frame_out_tick)
    \/ Consumed(m5_writesf_start_time_tick)
    \/ DspOff

CaptureSpec == CaptureInit /\ [][CaptureNext]_vars

\* ===================== frame time codes (m5_timeanchor.c) =====================

\* the widths, scaled down: a t_float of the source holds 24 bits of
\* mantissa and a long 64 bits
FloatBits == 3
LongBits == 8

FRAME_FLOAT_EPOCH == 2 ^ FloatBits
LONG_MAX == 2 ^ (LongBits - 1) - 1
LONG_MIN == 0 - LONG_MAX - 1
Longs == LONG_MIN..LONG_MAX

\* the / and % of C on a positive divisor: the quotient is truncated
CDiv(a, b) == IF a >= 0 THEN a \div b ELSE 0 - ((0 - a) \div b)
CMod(a, b) == a - b * CDiv(a, b)

\* the unit in the last place of the float that holds the magnitude a
RECURSIVE Ulp(_, _)
Ulp(a, p) == IF a < FRAME_FLOAT_EPOCH * p THEN p ELSE Ulp(a, 2 * p)

\* (t_float)v of a long v: rounded to the nearest float, a tie to the even one
ToFloat(v) ==
    LET a == Abs(v)
        p == Ulp(a, 1)
        q == a \div p
        r == a % p
        m == (IF 2 * r > p \/ (2 * r = p /\ q % 2 = 1) THEN q + 1 ELSE q) * p
    IN IF v < 0 THEN 0 - m ELSE m

\* labs(n): undefined for LONG_MIN
Labs(n) == IF n = LONG_MIN THEN Longs ELSE {Abs(n)}

\* the result of an arithmetic expression of type long: undefined when the
\* value or a part of it is outside the range of long
LongResult(v, parts) == IF (parts \cup {v}) \subseteq Longs THEN {v} ELSE Longs

\* m5_frame_time_code_from_frames: the codes it can store in *out
m5_frame_time_code_from_frames(frames) ==
    {[sign |-> IF frames < 0 THEN -1 ELSE 1,
      epoch |-> ToFloat(CDiv(aframes, FRAME_FLOAT_EPOCH)),
      frames |-> ToFloat(CMod(aframes, FRAME_FLOAT_EPOCH))] : aframes \in Labs(frames)}

\* m5_frames_from_time_code: the values it can return
m5_frames_from_time_code(in) ==
    LongResult(in.sign * (in.epoch * FRAME_FLOAT_EPOCH + in.frames),
               {in.epoch * FRAME_FLOAT_EPOCH,
                in.epoch * FRAME_FLOAT_EPOCH + in.frames})

\* m5_frame_time_code_init
m5_frame_time_code_init == [sign |-> 1, epoch |-> 0, frames |-> 0]

\* m5_frame_time_code_add
m5_frame_time_code_add(in1, in2) ==
    UNION {UNION {UNION {m5_frame_time_code_from_frames(sum) :
                           sum \in LongResult(in1Frames + in2Frames, {})} :
                    in2Frames \in m5_frames_from_time_code(in2)} :
             in1Frames \in m5_frames_from_time_code(in1)}

\* m5_frame_time_code_multiply_scalar by the scalar num / den
m5_frame_time_code_multiply_scalar(in1, num, den) ==
    UNION {UNION {m5_frame_time_code_from_frames(product) :
                    product \in LongResult((in1Frames * num) \div den, {})} :
             in1Frames \in m5_frames_from_time_code(in1)}

\* ----- the frame time code objects: one message to a new object -----
FtcInputs ==
    {[sign |-> sg, epoch |-> e, frames |-> f] :
        sg \in {1, -1}, e \in {0, 1}, f \in {0, 1, FRAME_FLOAT_EPOCH - 1}}

\* the scalars num / den of m5_ftc_mult
FtcScalars == {<<0, 1>>, <<2, 1>>, <<-1, 1>>, <<1, 2>>}

FtcInit == Init /\ kind = "readsf"

FtcDone(op, n, in1, in2, out) ==
    /\ blk.kind = "none"
    /\ \E back \in m5_frames_from_time_code(out) :
         blk' = [kind |-> "ftc", op |-> op, n |-> n, in1 |-> in1, in2 |-> in2,
                 out |-> out, back |-> back]
    /\ UNCHANGED <<kind, build, x, buf, wk, mutex, rt, host, hist>>

\* m5_time_anchor_bang and the other callers of m5_frame_time_code_from_frames
FtcFromFrames ==
    \E n \in Longs : \E out \in m5_frame_time_code_from_frames(n) :
        FtcDone("fromFrames", n, m5_frame_time_code_init, m5_frame_time_code_init, out)

\* m5_ftc_add_list
m5_ftc_add_list ==
    \E in1, in2 \in FtcInputs : \E out \in m5_frame_time_code_add(in1, in2) :
        FtcDone("add", 0, in1, in2, out)

\* m5_ftc_mult_list
m5_ftc_mult_list ==
    \E in1 \in FtcInputs, sc \in FtcScalars :
      \E out \in m5_frame_time_code_multiply_scalar(in1, sc[1], sc[2]) :
        FtcDone("mult", sc[1], in1, [sign |-> 1, epoch |-> 0, frames |-> sc[2]], out)

FtcNext == FtcFromFrames \/ m5_ftc_add_list \/ m5_ftc_mult_list

FtcSpec == FtcInit /\ [][FtcNext]_vars

\* ----- m5_ftc_cycles: one message to a new object -----
MaxClock == 12
MaxLoop == 5
MaxCycles == 2

\* a loop start that always lies after the clock time
LoopStartAfter(clock, offset_frames, loop_frames, offset_loops, safety) ==
    LET lclock == clock - offset_frames
    IN IF loop_frames < 0 THEN [e |-> 1, frame |-> 0]
       ELSE IF loop_frames = 0 THEN [e |-> 0, frame |-> lclock + safety]
       ELSE [e |-> 0,
             frame |-> lclock + loop_frames + offset_frames
                         - CMod(lclock, loop_frames)
                         + offset_loops * loop_frames + safety]

\* m5_loop_start_from_clock_time, on the frame counts of offset and
\* loop_length: the error code and the frame put into *out
m5_loop_start_from_clock_time(clock, offset_frames, loop_frames, offset_loops, safety) ==
    LET lclock == clock - offset_frames
    IN IF loop_frames < 0 THEN [e |-> 1, frame |-> 0]
       ELSE IF loop_frames = 0 THEN [e |-> 0, frame |-> lclock + safety]
       ELSE LET now_frame == CMod(lclock, loop_frames)
            IN IF now_frame = 0
               THEN [e |-> 0,
                     frame |-> lclock + offset_loops * loop_frames + safety]
               ELSE [e |-> 0,
                     frame |-> lclock + loop_frames + offset_frames - now_frame
                                 + offset_loops * loop_frames + safety]

\* the frame time code a user sends for n frames
FtcList(n) == [sign |-> IF n < 0 THEN -1 ELSE 1,
               epoch |-> Abs(n) \div FRAME_FLOAT_EPOCH,
               frames |-> Abs(n) % FRAME_FLOAT_EPOCH]

\* m5_ftc_cycles_get_start_time of an object with the offset x_offset, the
\* loop length x_loopLength and the safety x_safety
m5_ftc_cycles_get_start_time(msg, offset_loops, now, x_offset, x_loopLength, x_safety) ==
    /\ blk.kind = "none"
    /\ UNCHANGED <<kind, build, x, buf, wk, mutex, rt, host, hist>>
    /\ \E offset_frames \in m5_frames_from_time_code(x_offset),
          loop_frames \in m5_frames_from_time_code(x_loopLength) :
         LET r == m5_loop_start_from_clock_time(now, offset_frames, loop_frames,
                                                offset_loops, x_safety)
         IN \E startFTC \in IF r.e = 0 THEN m5_frame_time_code_from_frames(r.frame)
                                        ELSE {m5_frame_time_code_init} :
              blk' = [kind |-> "cycles", msg |-> msg, now |-> now,
                      offset_loops |-> offset_loops,
                      x_offset |-> x_offset, x_loopLength |-> x_loopLength,
                      x_safety |-> x_safety, e |-> r.e, out |-> startFTC]

\* m5_ftc_cycles_start_time: bang or get_start
m5_ftc_cycles_start_time ==
    \E now \in 0..MaxClock, l \in (-1)..MaxLoop, off \in {0, 1}, sf \in {0, 1} :
        m5_ftc_cycles_get_start_time("bang", 0, now, FtcList(off), FtcList(l), sf)

\* m5_ftc_cycles_float
m5_ftc_cycles_float ==
    \E now \in 0..MaxClock, l \in (-1)..MaxLoop, off \in {0, 1}, sf \in {0, 1},
       f \in (0 - MaxCycles)..MaxCycles :
        m5_ftc_cycles_get_start_time("float", f, now, FtcList(off), FtcList(l), sf)

\* m5_ftc_cycles_list with a displacement and a frame time code: the time is
\* taken from the list instead of the anchor (here the times before zero)
m5_ftc_cycles_list ==
    \E t \in (0 - MaxClock)..(-1), l \in (-1)..MaxLoop, off \in {0, 1}, sf \in {0, 1},
       f \in (0 - MaxCycles)..MaxCycles :
        \E now \in m5_frames_from_time_code(FtcList(t)) :
            m5_ftc_cycles_get_start_time("list", f, now, FtcList(off), FtcList(l), sf)

CyclesInit == Init /\ kind = "readsf"

CyclesNext == m5_ftc_cycles_start_time \/ m5_ftc_cycles_float \/ m5_ftc_cycles_list

CyclesSpec == CyclesInit /\ [][CyclesNext]_vars

\* ----- m5_ftc_add objects in a chain, m5_ftc_compare -----

\* the frame time codes sent to the objects: normalized, the epoch a float
AlgInputs ==
    {[sign |-> sg, epoch |-> e, frames |-> f] :
        sg \in {1, -1}, e \in {0, 1, FRAME_FLOAT_EPOCH}, f \in {0, FRAME_FLOAT_EPOCH - 1}}

\* m5_frame_time_code_compare: the values it can return
m5_frame_time_code_compare(left, right) ==
    {IF leftFrames > rightFrames THEN 1
     ELSE IF leftFrames = rightFrames THEN 0 ELSE -1 :
        leftFrames \in m5_frames_from_time_code(left),
        rightFrames \in m5_frames_from_time_code(right)}

\* the exact sum of the three codes and of each two of them fits a long
\* and is not LONG_MIN
SumsFit(a, b, c) ==
    LET va == a.sign * (a.epoch * FRAME_FLOAT_EPOCH + a.frames)
        vb == b.sign * (b.epoch * FRAME_FLOAT_EPOCH + b.frames)
        vc == c.sign * (c.epoch * FRAME_FLOAT_EPOCH + c.frames)
    IN {va + vb, vb + vc, va + vb + vc} \subseteq (Longs \ {LONG_MIN})

\* m5_ftc_add_list of two objects in a row, in both groupings, and of one
\* object in both orders and with a zero of either sign
m5_ftc_add_chain ==
    /\ blk.kind = "none"
    /\ UNCHANGED <<kind, build, x, buf, wk, mutex, rt, host, hist>>
    /\ \E a, b, c \in AlgInputs :
         /\ SumsFit(a, b, c)
         /\ \E ab \in m5_frame_time_code_add(a, b),
               ba \in m5_frame_time_code_add(b, a),
               bc \in m5_frame_time_code_add(b, c),
               plus0 \in m5_frame_time_code_add(a, [sign |-> 1, epoch |-> 0, frames |-> 0]),
               minus0 \in m5_frame_time_code_add(a, [sign |-> -1, epoch |-> 0, frames |-> 0]) :
              \E left \in m5_frame_time_code_add(ab, c),
                 right \in m5_frame_time_code_add(a, bc) :
                  blk' = [kind |-> "chain", a |-> a, b |-> b, c |-> c,
                          ab |-> ab, ba |-> ba, left |-> left, right |-> right,
                          plus0 |-> plus0, minus0 |-> minus0]

\* m5_ftc_compare_list
m5_ftc_compare_list ==
    /\ blk.kind = "none"
    /\ UNCHANGED <<kind, build, x, buf, wk, mutex, rt, host, hist>>
    /\ \E left, right \in AlgInputs :
         \E r \in m5_frame_time_code_compare(left, right) :
             blk' = [kind |-> "compare", left |-> left, right |-> right,
                     x_lastResult |-> r]

AlgNext == m5_ftc_add_chain \/ m5_ftc_compare_list

AlgSpec == FtcInit /\ [][AlgNext]_vars

\* ----- the time anchor alone: mark, requests for the time, time passing -----

\* m5_time_anchor_mark; t0 notes the time of the mark
m5_time_anchor_mark ==
    /\ host' = [host EXCEPT !.anchor = host.now]
    /\ blk' = [kind |-> "mark", marked |-> TRUE, t0 |-> host.now,
               at |-> host.now, elapsed |-> 0, prev |-> 0]
    /\ UNCHANGED <<kind, build, x, buf, wk, mutex, rt, hist>>

\* m5_time_anchor_bang: m5_time_anchor_get_time_since_start; t0 notes the
\* time of the first request when the anchor was not asked or marked before
m5_time_anchor_bang ==
    /\ host' = [host EXCEPT !.anchor = AnchorStart]
    /\ blk' = [kind |-> "time",
               marked |-> IF blk.kind = "none" THEN FALSE ELSE blk.marked,
               t0 |-> IF blk.kind = "none" THEN host.now ELSE blk.t0,
               at |-> host.now,
               elapsed |-> host.now - AnchorStart,
               prev |-> IF blk.kind = "none" THEN 0 ELSE blk.elapsed]
    /\ UNCHANGED <<kind, build, x, buf, wk, mutex, rt, hist>>

\* the logical time goes on
AnchorTick ==
    /\ host.now < MaxTime
    /\ host' = [host EXCEPT !.now = host.now + 1]
    /\ UNCHANGED <<kind, build, x, buf, wk, mutex, rt, hist, blk>>

AnchorNext == m5_time_anchor_mark \/ m5_time_anchor_bang \/ AnchorTick

AnchorSpec == FtcInit /\ [][AnchorNext]_vars

\* ----- playback that loops for ever: stop never -----
FifoMessage ==
    /\ host.now < MaxTime
    /\ \/ Sent(m5_readsf_start(START_NOW))
       \/ Sent(m5_readsf_stop_at(END_NEVER))
       \/ \E ll \in LoopLengthArgs : Sent(m5_readsf_loop_length(ll))
       \/ \E ls \in LoopStartArgs : Sent(m5_readsf_loop_start(ls))

FifoNext ==
    \/ LiveChild
    \/ LiveOpen
    \/ FifoMessage
    \/ ReadPerform
    \/ LiveTick
    \/ LiveInfoTick

FifoSpec == LiveInit /\ [][FifoNext]_vars

\* ----- the same playback of a 24-bit file: frames of 3 bytes -----
WideOpen ==
    /\ host.now < MaxTime
    /\ \E f \in Files24, o \in OnsetArgs : Sent(m5_readsf_open(f, o))

WideNext ==
    \/ LiveChild
    \/ WideOpen
    \/ FifoMessage
    \/ ReadPerform
    \/ LiveTick
    \/ LiveInfoTick

WideSpec == LiveInit /\ [][WideNext]_vars

\* ----- capture with a worker, callbacks and clocks that keep running -----
DrainChild == Consumed(WChild)

DrainMessage ==
    /\ host.now < MaxTime
    /\ \/ \E f \in {g \in Files : g.frames = 0} : Sent(m5_writesf_open(f))
       \/ Sent(m5_writesf_start(START_NOW, 0))
       \/ Sent(m5_writesf_stop)

DrainTick == Consumed(m5_writesf_frame_out_tick)

DrainStartTick == Consumed(m5_writesf_start_time_tick)

DrainNext ==
    \/ DrainChild
    \/ DrainMessage
    \/ m5_writesf_open_wait
    \/ m5_writesf_perform
    \/ m5_writesf_perform_woken
    \/ DrainTick
    \/ DrainStartTick

DrainSpec ==
    /\ CaptureInit /\ [][DrainNext]_vars
    /\ WF_vars(DrainChild) /\ WF_vars(m5_writesf_open_wait)
    /\ WF_vars(m5_writesf_perform_woken)
    /\ WF_vars(DrainTick) /\ WF_vars(DrainStartTick)

\* ----- the DSP graph is built again while the objects run -----

\* m5_readsf_dsp with the block size of the graph: the time anchor is looked
\* up again under the same name, the block size and the signal period are set
m5_readsf_dsp ==
    /\ kind = "readsf"
    /\ ParentIdle
    /\ x' = [x EXCEPT !.x_vecsize = MAXVECSIZE,
                      !.x_sigperiod =
                          x.x_fifosize \div (x.sf_bytesperframe * MAXVECSIZE)]
    /\ UNCHANGED <<kind, build, buf, wk, mutex, rt, hist>>

\* m5_writesf_dsp with the block size of the graph
m5_writesf_dsp ==
    /\ kind = "writesf"
    /\ ParentIdle
    /\ x' = [x EXCEPT !.x_vecsize = MAXVECSIZE,
                      !.x_sigperiod =
                          x.x_fifosize \div (16 * x.sf_bytesperframe * MAXVECSIZE)]
    /\ UNCHANGED <<kind, build, buf, wk, mutex, rt, hist>>

RebuildDsp ==
    /\ host.now < MaxTime
    /\ (Sent(m5_readsf_dsp) \/ Sent(m5_writesf_dsp))

RebuildNext ==
    \/ LiveChild
    \/ LiveOpen
    \/ LiveMessage
    \/ ReadPerform
    \/ LiveTick
    \/ LiveInfoTick
    \/ DrainChild
    \/ DrainMessage
    \/ m5_writesf_open_wait
    \/ m5_writesf_perform
    \/ m5_writesf_perform_woken
    \/ DrainTick
    \/ DrainStartTick
    \/ RebuildDsp

RebuildSpec == Init /\ [][RebuildNext]_vars

\* ----- the lifetime of time anchors and the reference a stream keeps -----
\* The state is the record blk: the anchors that exist (all bound to the
\* name "a"), those with x_usedindsp set, the stream's x_m5TimeAnchorName
\* ("" stands for the null symbol, "b" for a name without an anchor) and its
\* cached x_m5TimeAnchor (0 or the anchor), whether the DSP runs, whether the
\* block callback has just run, and the last anchor that was destroyed while
\* the stream had it cached.
MaxAnchors == 2
AnchorIds == 1..MaxAnchors
AnchorNames == {"", "self", "a", "b"}

\* m5_time_anchor_find: an anchor bound to the name, 0 when there is none
m5_time_anchor_find(g, s) ==
    IF s = "a" /\ g.anchors # {} THEN g.anchors ELSE {0}

\* a lookup that caches the anchor without marking it as used in the DSP
TimeSetUnmarked(g, s, a) ==
    [g EXCEPT !.x_m5TimeAnchorName = s,
              !.x_m5TimeAnchor = IF s \in {"", "self"} THEN 0 ELSE a]

\* m5_readsf_time_set / m5_writesf_time_set with a the anchor that
\* m5_time_anchor_find returns for s
m5_readsf_time_set(g, s, a) ==
    [g EXCEPT !.x_m5TimeAnchorName = s,
              !.x_m5TimeAnchor = IF s \in {"", "self"} THEN 0 ELSE a,
              !.usedindsp = IF s \notin {"", "self"} /\ a # 0
                            THEN g.usedindsp \cup {a} ELSE g.usedindsp]

\* canvas_update_dsp: when the DSP runs the graph is built again, and
\* m5_readsf_dsp looks the anchor up under the name the stream has kept
GraphRebuild(g) ==
    IF g.dspstate
    THEN {m5_readsf_time_set(g, g.x_m5TimeAnchorName, a) :
            a \in m5_time_anchor_find(g, g.x_m5TimeAnchorName)}
    ELSE {g}

GraphStep(next) ==
    /\ blk.kind = "graph"
    /\ blk' \in next
    /\ UNCHANGED <<kind, build, x, buf, wk, mutex, rt, host, hist>>

\* m5_readsf_new / m5_writesf_new: no anchor name, no anchor; the DSP is off
GraphNew ==
    /\ blk.kind = "none"
    /\ blk' = [kind |-> "graph", anchors |-> {}, usedindsp |-> {},
               x_m5TimeAnchorName |-> "", x_m5TimeAnchor |-> 0,
               dspstate |-> FALSE, performed |-> FALSE, lost |-> 0]
    /\ UNCHANGED <<kind, build, x, buf, wk, mutex, rt, host, hist>>

\* m5_time_anchor_new: the anchor is bound to its name, x_usedindsp = 0
m5_time_anchor_new ==
    \E id \in AnchorIds \ (IF blk.kind = "graph" THEN blk.anchors ELSE AnchorIds) :
        GraphStep(GraphRebuild([blk EXCEPT !.anchors = blk.anchors \cup {id},
                                           !.usedindsp = blk.usedindsp \ {id},
                                           !.performed = FALSE]))

\* m5_time_anchor_free: the anchor is unbound; the graph is built again only
\* when x_usedindsp is set
m5_time_anchor_free ==
    \E id \in (IF blk.kind = "graph" THEN blk.anchors ELSE {}) :
        LET g == [blk EXCEPT !.anchors = blk.anchors \ {id},
                             !.usedindsp = blk.usedindsp \ {id},
                             !.performed = FALSE,
                             !.lost = IF blk.x_m5TimeAnchor = id THEN id ELSE blk.lost]
        IN GraphStep(IF id \in blk.usedindsp THEN GraphRebuild(g) ELSE {g})

\* m5_readsf_time / m5_writesf_time: the `time` message with a name
GraphTime ==
    \E s \in AnchorNames :
        /\ blk.kind = "graph"
        /\ GraphStep({m5_readsf_time_set([blk EXCEPT !.performed = FALSE], s, a) :
                        a \in m5_time_anchor_find(blk, s)})

\* the DSP is switched on: the graph is built
DspStart ==
    /\ blk.kind = "graph" /\ ~blk.dspstate
    /\ GraphStep(GraphRebuild([blk EXCEPT !.dspstate = TRUE, !.performed = FALSE]))

\* the DSP is switched off
DspStop ==
    /\ blk.kind = "graph" /\ blk.dspstate
    /\ GraphStep({[blk EXCEPT !.dspstate = FALSE, !.performed = FALSE]})

\* the block callback reads x_m5TimeAnchor; it is on the DSP chain only
GraphPerform ==
    /\ blk.kind = "graph" /\ blk.dspstate
    /\ GraphStep({[blk EXCEPT !.performed = TRUE]})

GraphNext ==
    \/ GraphNew
    \/ m5_time_anchor_new
    \/ m5_time_anchor_free
    \/ GraphTime
    \/ DspStart
    \/ DspStop
    \/ GraphPerform

GraphSpec == Init /\ [][GraphNext]_vars

\* ===================== properties =====================

\* the sample a file of n frames holds in frame k (16-bit little-endian)
FileSample(n, k) ==
    FileByte(n, HeaderSize + k * BytesPerSample)
      + 256 * FileByte(n, HeaderSize + k * BytesPerSample + 1)

\* the loop length in frames that is in force: the file's usable frames for
\* LOOP_SELF, else the length given with loop_length
LoopFrames(xx) ==
    IF xx.x_m5LoopLength = LOOP_SELF
    THEN OpenedByteLimit(xx.x_filename, xx.x_onsetframes) \div BytesPerSample
    ELSE xx.x_m5LoopLength

\* the sample that belongs to time t of a playback that started at `start':
\* the file's frame at the loop position, zero past the file's data
ExpectedAt(xx, start, t) ==
    LET pos == ((t - start) % LoopFrames(xx)) + xx.x_m5LoopStart
    IN FileSample(xx.x_filename.frames, xx.x_onsetframes + pos)

\* the time of sample i of the block just produced
TimeOf(i) == blk.bs + i - 1

\* C1: in every block that plays from the file, the sample at a time t with
\* start <= t < end is the file's frame at loop position (t - start) mod L,
\* also in the block in which the start time lies
C1_SampleAccurate ==
    (kind = "readsf" /\ blk.kind \in {"full", "prefix", "end"}
       /\ blk.end # END_NEVER /\ LoopFrames(x) > 0)
    => \A i \in 1..MAXVECSIZE :
         (blk.start <= TimeOf(i) /\ TimeOf(i) < blk.end)
         => blk.out[i] = ExpectedAt(x, blk.start, TimeOf(i))

\* C2: every sample of a playback block is written, and the samples at times
\* before the start time or at or after the end time are zero
C2_SilentOutside ==
    (kind = "readsf" /\ blk.kind # "none")
    => \A i \in 1..MAXVECSIZE :
         /\ blk.out[i] # UNWRITTEN
         /\ (blk.kind \in {"full", "prefix", "end"}
               /\ (TimeOf(i) < blk.start \/ TimeOf(i) >= blk.end))
            => blk.out[i] = 0

\* C3: the first frame of the file on disk is the input frame whose time is
\* the reported start time of the recording
C3_FirstFrame ==
    (kind = "writesf" /\ x.x_state = "STREAM" /\ x.sf_fd
       /\ x.x_requestcode = "BUSY" /\ Len(hist.disk) >= BytesPerSample)
    => Decode16(hist.disk, 1)
         = InputAt(x.x_m5LocalTimeAnchor + x.x_m5WriteStartTimeReport)

\* bytes of the FIFO that the child has still to write
PendingBytes(xx) ==
    IF xx.x_fifohead >= xx.x_fifotail THEN xx.x_fifohead - xx.x_fifotail
    ELSE xx.x_fifosize - xx.x_fifotail + xx.x_fifohead

\* C4: when the block callback ends a recording at its end time E, the
\* frames written and still to be written are max(0, E - S) in number
C4_FramesWritten ==
    (kind = "writesf" /\ blk.kind = "fin" /\ blk.end # END_NEVER
       /\ blk.bs <= blk.end /\ x.sf_fd)
    => x.x_frameswritten + PendingBytes(x) \div BytesPerSample
         = IF blk.start = START_AT_THRESHOLD THEN 0
           ELSE Max(0, blk.end - blk.start)

\* C5: whenever playback leaves the state Stream for the state Idle, the
\* bang of the done outlet is scheduled
C5_BangOnStop ==
    [][(kind = "readsf" /\ x.x_state = "STREAM" /\ x'.x_state = "IDLE")
         => host'.x_clock]_vars

\* C6: a stopped recording leaves the state Idle2 only for the state Idle,
\* with the published frame count scheduled for the info outlet
C6_CountNotLost ==
    [][(kind = "writesf" /\ x.x_state = "IDLE_2" /\ hist.fin # "none"
          /\ x'.x_state # "IDLE_2")
         => (x'.x_state = "IDLE" /\ host'.x_m5FramesOutClock)]_vars

\* C7: after an open, at most one frame count is emitted on the info outlet,
\* and it is the count of usable frames of the file that was opened
C7_ExactlyOnce ==
    (kind = "readsf" /\ hist.opened)
    => /\ hist.infoOut <= 1
       /\ hist.infoOut = 1
            => hist.infoVal = OpenedByteLimit(x.x_filename, x.x_onsetframes)
                                \div BytesPerSample

\* C8: the block callback never waits on a condition variable
C8_NeverWaits == rt.pc \notin {"perf_wait", "perf_woken"}

\* C9: once the destructor has left its wait loop for pthread_join, the
\* child is not waiting for a request (nobody is left to signal it, so the
\* join would never return)
C9_DestroyTerminates ==
    rt.pc = "joining" => wk.pc \notin {"wait_top", "wait_room"}

\* the end time is a frame count that lies before the horizon
FiniteEnd ==
    /\ x.x_m5PlayEndTime >= 0
    /\ x.x_m5LocalTimeAnchor + x.x_m5PlayEndTime < MaxTime

\* C10: with DSP running, a playback in state Stream whose file was opened
\* without error and whose end time is finite leaves the state Stream
\* (unless reading the file fails later on)
C10_ReachesIdle ==
    (x.x_state = "STREAM" /\ x.sf_fd /\ x.x_fileerror = 0 /\ FiniteEnd)
      ~> (x.x_state # "STREAM" \/ x.x_fileerror # 0)

\* C11: when the playback worker has recorded an error (x_fileerror set) and
\* the stream is in Stream or Startup, the next block callback moves the
\* stream to Idle and schedules the done bang
C11_ErrorReported ==
    [][(kind = "readsf" /\ x.x_fileerror # 0 /\ x.x_state \in {"STREAM", "STARTUP"}
        /\ rt.pc = "idle" /\ blk'.kind # "none")
       => (x'.x_state = "IDLE" /\ host'.x_clock)]_vars

\* the fields the message handlers decide on
Control(xx) ==
    [ state |-> xx.x_state, requestcode |-> xx.x_requestcode,
      fifohead |-> xx.x_fifohead, fifotail |-> xx.x_fifotail, eof |-> xx.x_eof,
      start |-> xx.x_m5PlayStartTime, end |-> xx.x_m5PlayEndTime,
      loopStart |-> xx.x_m5LoopStart, loopLength |-> xx.x_m5LoopLength ]

\* C12: a message whose arguments fail validation leaves state, request
\* code, FIFO indices, loop parameters and start/end times unchanged
C12_InvalidUnchanged ==
    [][(host.msg = "none" /\ host'.msg = "invalid") => Control(x') = Control(x)]_vars

\* C13: a start sent to a playback object that is not in Startup/Startup2,
\* a start sent to a capture object that is not in Startup, and a stop sent
\* to an object with no file opened for streaming (state Idle or Idle2)
\* leave state, request code, head, tail, EOF flag, start/end time and loop
\* parameters unchanged
C13_RejectedUnchanged ==
    [][(host.msg = "none"
        /\ \/ host'.msg = "start" /\ kind = "readsf"
              /\ x.x_state \notin {"STARTUP", "STARTUP_2"}
           \/ host'.msg = "start" /\ kind = "writesf" /\ x.x_state # "STARTUP"
           \/ host'.msg = "stop" /\ x.x_state \in {"IDLE", "IDLE_2"})
       => Control(x') = Control(x)]_vars

\* a start has been sent to a playback object while it was playing
C13_Witness ==
    kind = "readsf" /\ host.msg = "start" /\ x.x_state = "IDLE" /\ hist.audio

\* C14: in playback state Startup2, after `stop now` (end time END_NOW) the
\* stream is Idle at the latest when the next block callback has run
C14_StopNowIdle ==
    [][(kind = "readsf" /\ x.x_state = "STARTUP_2" /\ x.x_m5PlayEndTime = END_NOW
        /\ blk'.kind # "none")
       => x'.x_state = "IDLE"]_vars

\* C15: with `stop end` in effect, a playback started now (the only start
\* of MsgSpec) ends exactly one loop length after its start time
C15_EndAfterOneLoop ==
    (kind = "readsf" /\ blk.kind = "end" /\ blk.end # END_NOW /\ LoopFrames(x) > 0)
      => blk.end = blk.start + LoopFrames(x)

\* the file position that follows position p in the loop of stream xx
LoopNext(w, xx, p) ==
    LET first == w.m5_initial_offset + w.sf_bytesperframe * xx.x_m5LoopStart
    IN IF p = first + LoopLengthBytes(w, xx) THEN first ELSE p

\* C16: after every pass of the refill loop (also when the loop goes past
\* the end of the file's data) each byte put into the FIFO is the file's byte
\* at its file position, zero for positions at or past the end of the data;
\* the loop goes on, and head and the file position move on by exactly the bytes read plus the
\* zero bytes written
C16_LoopPastEof ==
    [][(kind = "readsf" /\ wk.pc = "io_done" /\ wk'.pc # "io_done"
          /\ x.x_requestcode = "BUSY" /\ wk.bytesread >= 0)
       => /\ wk'.pc = "loop"
          /\ \A i \in 0..(wk.wantbytes - 1) :
               buf[wk.fifohead + i] = FileByte(wk.file.frames, wk.nextSeek + i)
          /\ (x.x_fifohead = wk.last_fifohead
                /\ x.x_m5HeadTimeRequest = wk.last_headTimeRequest)
             => /\ x'.x_fifohead = (x.x_fifohead + wk.wantbytes) % x.x_fifosize
                /\ wk'.nextSeek = LoopNext(wk, x, wk.nextSeek + wk.wantbytes)]_vars

\* a pass has read the last bytes of the file and filled up with zero bytes
C16_Witness ==
    /\ kind = "readsf" /\ wk.pc = "loop" /\ x.x_m5LoopLength # LOOP_SELF
    /\ x.x_fifohead > 0
    /\ wk.nextSeek > FileEnd(wk.file)
    /\ \E i \in 0..(x.x_fifohead - 1) : buf[i] # 0

\* the frame offsets of the block at which some channel is at or above the threshold
ScanHits(b) ==
    {j \in 0..(ScanFrames - 1) :
        \E i \in 0..(ScanChannels - 1) : Abs(b.vecs[i][j]) >= b.threshold}

\* C17: the capture start time found by the threshold scan is blockStart + t,
\* t the smallest frame offset at which some input channel is at or above
\* the threshold; with no such sample the start time stays unset
C17_EarliestOverChannels ==
    blk.kind = "scan"
    => blk.x_m5PlayStartTime =
         IF ScanHits(blk) = {} THEN START_AT_THRESHOLD
         ELSE blk.blockStart + (CHOOSE j \in ScanHits(blk) : \A k \in ScanHits(blk) : j <= k)

\* C18: when a capture armed for the start time S begins to stream at a block
\* with blockStart > S, the reported start time is blockStart - r with
\* r = min(blockStart - S, fifoFrames)
C18_LateStartReport ==
    [][(kind = "writesf" /\ x.x_state = "STREAM_JUST_STARTING"
          /\ x'.x_state = "STREAM"
          /\ x.x_m5PlayStartTime >= 0 /\ x.x_m5PlayStartTime # START_AT_THRESHOLD
          /\ BlockStartTime > x.x_m5PlayStartTime)
       => x'.x_m5WriteStartTimeReport =
            BlockStartTime - Min(BlockStartTime - x.x_m5PlayStartTime,
                                 x.x_fifosize \div x.sf_bytesperframe)]_vars

\* the frame count a frame time code stands for
FtcFrames(f) == f.sign * (f.epoch * FRAME_FLOAT_EPOCH + f.frames)

\* the first multiple of l at or after clk
NextBoundary(clk, l) == ((clk + l - 1) \div l) * l

\* C19: with offset 0, safety 0, a loop length l > 0 and the anchor time
\* clk >= 0, a bang (k = 0) or a float k sent to m5_ftc_cycles puts out
\* ceil(clk / l) * l + k * l; on a boundary k = 0 gives clk itself and k = 1
\* gives clk + l
C19_NextBoundary ==
    (blk.kind = "cycles" /\ FtcFrames(blk.x_offset) = 0 /\ blk.x_safety = 0
       /\ FtcFrames(blk.x_loopLength) > 0 /\ blk.now >= 0)
    => /\ blk.e = 0
       /\ FtcFrames(blk.out) =
            NextBoundary(blk.now, FtcFrames(blk.x_loopLength))
              + blk.offset_loops * FtcFrames(blk.x_loopLength)

\* the clock is on a boundary and one loop further is asked for
C19_Witness ==
    /\ blk.kind = "cycles" /\ blk.msg = "float" /\ blk.offset_loops = 1
    /\ FtcFrames(blk.x_offset) = 0 /\ blk.x_safety = 0
    /\ FtcFrames(blk.x_loopLength) = 4 /\ blk.now = 8
    /\ blk.out = [sign |-> 1, epoch |-> 1, frames |-> 4]

\* C20: every frame time code that fromFrames, add or the multiplication by
\* a scalar produces is normalized (sign +1 or -1, 0 <= frames < the epoch
\* size, the carry in epoch), and toFrames(fromFrames(n)) = n for every long n
C20_NormalizedRoundTrip ==
    blk.kind = "ftc"
    => /\ blk.out.sign \in {1, -1}
       /\ blk.out.frames >= 0 /\ blk.out.frames < FRAME_FLOAT_EPOCH
       /\ blk.out.epoch >= 0
       /\ blk.op = "fromFrames" => blk.back = blk.n

\* C21: the addition of frame time codes is commutative and associative in
\* the frame count it stands for, adding (+1,0,0) or (-1,0,0) leaves the
\* frame count unchanged, and compare gives +1, 0, -1 exactly as the frame
\* counts are greater, equal, less
C21_AddCompareAlgebra ==
    /\ blk.kind = "chain"
       => /\ FtcFrames(blk.ab) = FtcFrames(blk.ba)
          /\ FtcFrames(blk.left) = FtcFrames(blk.right)
          /\ FtcFrames(blk.plus0) = FtcFrames(blk.a)
          /\ FtcFrames(blk.minus0) = FtcFrames(blk.a)
    /\ blk.kind = "compare"
       => blk.x_lastResult =
            IF FtcFrames(blk.left) > FtcFrames(blk.right) THEN 1
            ELSE IF FtcFrames(blk.left) = FtcFrames(blk.right) THEN 0 ELSE -1

\* C22: the elapsed frame count of an anchor is counted from the first
\* request after its creation, or from the latest mark when there was one;
\* it is never negative, does not decrease between marks, and is 0 at the
\* instant of the mark or of the first request
C22_AnchorZero ==
    blk.kind = "time"
    => /\ blk.elapsed = blk.at - blk.t0
       /\ blk.elapsed >= 0
       /\ blk.elapsed >= blk.prev

\* a request after a mark and an earlier request, with time gone by
C22_Witness ==
    /\ blk.kind = "time" /\ blk.marked
    /\ blk.t0 > 0 /\ blk.prev > 0 /\ blk.elapsed > blk.prev
    /\ host.anchor = blk.t0

\* the block callback is about to slide the tail forward: no reset is
\* pending, the tail's time is before the block's time and the tail stays
\* before the forward limit
SlideApplies(xx, bs) ==
    /\ xx.x_m5LoopLengthRequest = 0
    /\ xx.x_m5PlayStartTime # START_NOW
    /\ bs > xx.x_m5TailTime
    /\ (bs - xx.x_m5TailTime) + xx.x_fifotail
         < (IF xx.x_fifohead < xx.x_fifotail THEN xx.x_fifosize ELSE xx.x_fifohead)

\* C23: when the playback callback finds tailTime # blockStart and slides
\* the tail, the tail advances by (blockStart - tailTime) * bytesPerFrame
\* bytes (and then by the bytes of the block, if the block is decoded), so
\* that the FIFO position and the time stay in step
C23_SlideInBytes ==
    [][(kind = "readsf" /\ rt.pc = "idle" /\ x.x_state = "STREAM"
          /\ blk'.kind # "none" /\ SlideApplies(x, BlockStartTime))
       => LET slid == x.x_fifotail
                        + (BlockStartTime - x.x_m5TailTime) * x.sf_bytesperframe
          IN x'.x_fifotail \in {slid % x.x_fifosize,
                                (slid + x.x_vecsize * x.sf_bytesperframe) % x.x_fifosize}]_vars

\* C24: when the FIFO is empty (head = tail, at any index) and the callback
\* has set headTimeRequest = tailTime to the block's time, the next read of
\* the worker, whose bytes are appended at head, starts at the file position
\* of the frame time headTimeRequest
C24_ResumeAtRequest ==
    [][(kind = "readsf" /\ wk.pc \in {"loop", "woken_room"} /\ wk'.pc = "io"
          /\ x.x_fifohead = x.x_fifotail
          /\ x.x_m5HeadTimeRequest = x.x_m5TailTime)
       => wk'.nextSeek = LoopNext(wk, x, FreshSeek(wk, x))]_vars


\* C25: a read that was in flight while the block callback reset the FIFO
\* (head = tail = 0, the pending start / loop request served) is not appended:
\* when the worker advances head at the reset FIFO, the read was fetched at the
\* position that the current parameters and headTimeRequest ask for
C25_NoStaleAppend ==
    [][(kind = "readsf" /\ wk.pc = "io_done" /\ wk'.pc = "loop"
          /\ x.x_fifohead = 0 /\ x.x_fifotail = 0
          /\ x.x_m5LoopLengthRequest = 0
          /\ x'.x_fifohead # x.x_fifohead)
       => wk.nextSeek = LoopNext(wk, x, FreshSeek(wk, x))]_vars


\* C26: in every state of a stream the FIFO's head and tail are multiples of
\* the frame size in bytes
C26_FrameAligned ==
    (kind = "readsf" /\ x.x_state = "STREAM")
    => /\ x.x_fifohead % x.sf_bytesperframe = 0
       /\ x.x_fifotail % x.sf_bytesperframe = 0


\* the bytes between tail and head of a FIFO of xx.x_fifosize bytes
Occupied(xx) == (xx.x_fifohead - xx.x_fifotail) % xx.x_fifosize

C28_DecodeInsideFifo ==
    [][(kind = "readsf" /\ x.x_state = "STREAM" /\ rt.pc = "idle"
          /\ blk'.kind = "full")
       => LET xs == StreamSync(x, blk'.bs)
              wantbytes == xs.x_vecsize * xs.sf_bytesperframe
          IN /\ xs.x_fifotail + wantbytes <= xs.x_fifosize
             /\ (xs.x_fifohead >= xs.x_fifotail
                   => xs.x_fifotail + wantbytes <= xs.x_fifohead)]_vars


\* C29: once the worker has served an OPEN and is in the refill loop of the
\* file it opened, the EOF flag and the error slot are clear: nothing of an
\* earlier, superseded open is left in them
C29_FreshFlagsAfterOpen ==
    (kind = "readsf" /\ wk.pc = "loop" /\ mutex = "wk"
       /\ x.x_requestcode = "BUSY")
    => (x.x_eof = 0 /\ x.x_fileerror = 0)


\* C30: after a block (before the time horizon) in which the playback callback
\* passes the end time and requests CLOSE, the worker eventually has closed
\* the file and set the request code back to NOTHING, with no further message
\* (unless a later `open` replaces the request)
C30_CloseServed ==
    (kind = "readsf" /\ blk.kind = "end" /\ x.x_requestcode = "CLOSE"
       /\ host.now < MaxTime)
      ~> \/ (x.x_requestcode = "NOTHING" /\ ~wk.sf_fd)
         \/ x.x_requestcode \in {"OPEN", "BUSY"}


\* C31: every step of the realtime side that changes the request code (to
\* OPEN, CLOSE or QUIT) is made with the mutex in its hands and signals the
\* request condition: a worker that waits on it is woken by the same step
C31_RequestSignalled ==
    [][(x'.x_requestcode # x.x_requestcode
          /\ x'.x_requestcode \in {"OPEN", "CLOSE", "QUIT"})
       => (mutex = "free" /\ wk' = SignalRequest(wk))]_vars


\* C32: every CLOSE request to the capture worker is acknowledged in the end:
\* the request code is NOTHING again and the frame count is published
C32_CloseAcknowledged ==
    (kind = "writesf" /\ x.x_requestcode = "CLOSE")
      ~> (x.x_requestcode = "NOTHING"
            /\ x.x_m5FramesWrittenReport = x.x_frameswritten)


\* the places of the worker right after a close(2) of its descriptor
ClosingPlaces ==
    {"open_closing", "close_closing", "quit_closing", "lost_closing", "bail_closing"}

\* C33: the worker gives up the descriptor it holds only by closing it: a
\* step after which its descriptor is no longer open follows a close of that
\* descriptor
C33_DescriptorClosed ==
    [][(wk.sf_fd /\ ~wk'.sf_fd) => wk.pc \in ClosingPlaces]_vars


\* the places of the worker inside a blocking file operation: open / create,
\* seek + read or write, header update and close
BlockingPlaces ==
    {"open_opening", "io"} \cup ClosingPlaces

\* the part of the object that the two threads share through the FIFO
SharedFields(xx) ==
    <<xx.x_fifohead, xx.x_fifotail, xx.x_requestcode, xx.x_eof, xx.x_fileerror>>

\* C34: the worker does not hold the mutex while it is inside a blocking file
\* operation, and the step that performs the read or the write with the mutex
\* released leaves head, tail, request code, EOF flag and error slot alone:
\* the worker goes on from a place inside a locked section only with the mutex
C34_WorkerLocking ==
    /\ [](wk.pc \in BlockingPlaces => mutex = "free")
    /\ [][(wk.pc = "io" /\ wk'.pc # wk.pc)
            => (SharedFields(x') = SharedFields(x) /\ mutex' = "free")]_vars
    /\ [][(wk'.pc # wk.pc /\ wk.pc \in {"top", "loop", "lost"}) => mutex = "wk"]_vars

\* C34 witness: the playback worker is in its read with the mutex released and
\* the block callback has meanwhile taken the mutex and moved the time request
C34_Witness ==
    /\ kind = "readsf" /\ wk.pc = "io" /\ mutex = "free"
    /\ x.x_m5HeadTimeRequest # wk.last_headTimeRequest


\* position inside the loop of the frame time that stream xx asks for: the
\* non-negative remainder of the byte time since the start time
LoopPosition(w, xx) ==
    ((xx.x_m5HeadTimeRequest - Max(0, xx.x_m5PlayStartTime)) * w.sf_bytesperframe)
      % LoopLengthBytes(w, xx)

\* C35: when the playback worker begins to fill a fresh FIFO (head = tail = 0)
\* the file offset of its read is initial offset + loop start bytes + p, with
\* p the non-negative remainder of (headTimeRequest - max(0, startTime)) *
\* bytesPerFrame modulo the loop length in bytes, whether the requested time
\* is after or before the start time
C35_FreshSeekOffset ==
    [][(kind = "readsf" /\ wk.pc \in {"loop", "woken_room"} /\ wk'.pc = "io"
          /\ x.x_fifohead = 0 /\ x.x_fifotail = 0)
       => wk'.nextSeek = wk.m5_initial_offset
                           + wk.sf_bytesperframe * x.x_m5LoopStart
                           + LoopPosition(wk, x)]_vars

\* C35 witness: the worker is in the first read of a fresh FIFO whose
\* requested time lies before the start time, at a position inside the loop
C35_Witness ==
    /\ kind = "readsf" /\ wk.pc = "io"
    /\ x.x_fifohead = 0 /\ x.x_fifotail = 0
    /\ x.x_m5HeadTimeRequest = wk.last_headTimeRequest
    /\ x.x_m5HeadTimeRequest < x.x_m5PlayStartTime
    /\ LoopPosition(wk, x) > 0
    /\ wk.nextSeek = wk.m5_initial_offset
                       + wk.sf_bytesperframe * x.x_m5LoopStart
                       + LoopPosition(wk, x)


\* C36: while a capture stream waits for its start (STREAM_JUST_STARTING, the
\* start time not reached or the threshold not met) tail equals head after
\* every block callback, and no frame is written to the file before the
\* start time is reached: a frame count above 0 means a start time that is
\* set and lies before the end of the blocks performed so far
C36_NothingBeforeStart ==
    /\ [][(kind = "writesf" /\ blk'.kind # "none"
             /\ x'.x_state = "STREAM_JUST_STARTING")
            => x'.x_fifotail = x'.x_fifohead]_vars
    /\ []((kind = "writesf" /\ x.x_frameswritten > 0)
            => /\ x.x_m5PlayStartTime \notin {START_NOW, START_AT_THRESHOLD}
               /\ x.x_m5PlayStartTime < BlockStartTime)


\* C37: with safety 0 and a loop length l > 0, for every offset O and every
\* cycle displacement k, the time that m5_ftc_cycles puts out is a cycle
\* boundary: (result - O) mod l = 0, on a boundary and off it
C37_ResultOnBoundary ==
    (blk.kind = "cycles" /\ blk.x_safety = 0 /\ FtcFrames(blk.x_loopLength) > 0)
    => /\ blk.e = 0
       /\ (FtcFrames(blk.out) - FtcFrames(blk.x_offset))
            % FtcFrames(blk.x_loopLength) = 0


\* C38: the remainder of the loop-start calculation is non-negative also for
\* a time before zero, so that with offset 0, safety 0, k = 0 and a loop
\* length l > 0 the result is the smallest boundary at or after clk for every
\* clk, negative ones included
C38_BoundaryForNegativeClock ==
    (blk.kind = "cycles" /\ FtcFrames(blk.x_offset) = 0 /\ blk.x_safety = 0
       /\ blk.offset_loops = 0 /\ FtcFrames(blk.x_loopLength) > 0)
    => /\ blk.e = 0
       /\ FtcFrames(blk.out) = NextBoundary(blk.now, FtcFrames(blk.x_loopLength))


\* the signal period that 16 signals per traversal of the FIFO ask for
SixteenthOfFifo(xx) ==
    xx.x_fifosize \div (16 * xx.sf_bytesperframe * xx.x_vecsize)

\* C39: whenever the signal period is set (by the worker at open, by open on
\* capture, when the DSP graph is built) it is fifoSize / (16 * bytesPerFrame
\* * blockFrames), and when the countdown of the block callback reaches zero
\* the callback signals the worker and sets the countdown to the period
C39_SignalPeriod ==
    /\ [][x'.x_sigperiod # x.x_sigperiod
            => x'.x_sigperiod = SixteenthOfFifo(x')]_vars
    /\ [][(blk'.kind # "none" /\ x'.x_sigcountdown # x.x_sigcountdown - 1
             /\ x'.x_sigcountdown # x.x_sigcountdown)
            => (x.x_sigcountdown - 1 <= 0 /\ x'.x_sigcountdown = x.x_sigperiod
                  /\ wk' = SignalRequest(wk))]_vars


\* C40: whenever the block callback of a stream has run, the anchor
\* reference it has cached is empty or refers to an anchor that exists, for
\* every order of anchor creation, `time` messages, anchor destruction and
\* DSP start / stop
C40_AnchorAlive ==
    (blk.kind = "graph" /\ blk.performed)
    => (blk.x_m5TimeAnchor = 0 \/ blk.x_m5TimeAnchor \in blk.anchors)

\* C40 witness: the callback has run after the anchor that the stream had
\* cached was destroyed, with the reference looked up again: it is the other
\* anchor of that name
C40_Witness ==
    /\ blk.kind = "graph" /\ blk.performed
    /\ blk.lost # 0 /\ blk.lost \notin blk.anchors
    /\ blk.x_m5TimeAnchorName = "a"
    /\ blk.x_m5TimeAnchor \in blk.anchors

====
